---- MODULE Spec2Model ----
(***************************************************************************)
(* Model of package rhttp (src/rhttp.go): the route-pattern compiler       *)
(* compilePattern, the parameter resolver readParams, the ordered route    *)
(* table kept by RegexpRouter.Handle and the dispatcher                    *)
(* RegexpRouter.ServeHTTP.                                                 *)
(*                                                                         *)
(* A Go string is a sequence of one-character strings, <<"/", "a">> for    *)
(* "/a"; byte offsets of the source are 0-based, sequence positions are    *)
(* 1-based, and Slice(s, i, j) is the Go slice s[i:j].  All text is ASCII, *)
(* so a rune and a byte are the same thing.                                *)
(***************************************************************************)
EXTENDS Integers, Sequences, FiniteSets, TLC

\* ------------------------------------------------------------------------
\* Strings
\* ------------------------------------------------------------------------

\* The byte value of a character (Go compares strings bytewise).
Code(c) ==
    CASE c = "$" -> 36 [] c = "(" -> 40 [] c = ")" -> 41 [] c = "*" -> 42
      [] c = "+" -> 43 [] c = "-" -> 45 [] c = "." -> 46 [] c = "/" -> 47
      [] c = "0" -> 48 [] c = "1" -> 49 [] c = "2" -> 50 [] c = "3" -> 51
      [] c = ":" -> 58 [] c = "=" -> 61 [] c = "?" -> 63
      [] c = "S" -> 83 [] c = "V" -> 86 [] c = "[" -> 91 [] c = "\\" -> 92
      [] c = "]" -> 93 [] c = "^" -> 94 [] c = "_" -> 95
      [] c = "a" -> 97 [] c = "b" -> 98 [] c = "c" -> 99 [] c = "d" -> 100
      [] c = "s" -> 115 [] c = "v" -> 118 [] c = "w" -> 119
      [] c = "{" -> 123 [] c = "|" -> 124 [] c = "}" -> 125

Digits == {"0", "1", "2", "3"}
Letters == {"a", "b", "c", "d", "s", "v", "w", "S", "V"}

\* Go's s[i:j].
Slice(s, i, j) == SubSeq(s, i + 1, j)

\* Go's a < b on strings.
RECURSIVE StrLess(_, _)
StrLess(a, b) ==
    IF b = <<>> THEN FALSE
    ELSE IF a = <<>> THEN TRUE
    ELSE IF Head(a) = Head(b) THEN StrLess(Tail(a), Tail(b))
    ELSE Code(Head(a)) < Code(Head(b))

\* strings.HasPrefix(s, prefix).
HasPrefix(s, prefix) ==
    Len(prefix) <= Len(s) /\ SubSeq(s, 1, Len(prefix)) = prefix

\* The value of a decimal digit string (strconv's base-10 accumulation).
RECURSIVE DecimalValue(_)
DecimalValue(s) ==
    IF s = <<>> THEN 0
    ELSE 10 * DecimalValue(SubSeq(s, 1, Len(s) - 1)) + (Code(s[Len(s)]) - Code("0"))

IsDigits(s) == s # <<>> /\ \A k \in 1..Len(s) : s[k] \in Digits

\* ------------------------------------------------------------------------
\* Package regexp of the Go standard library, for the subset of the syntax
\* the patterns of this model use: literal characters, `.`, `\` followed by
\* a punctuation character, `\d`, `^`, `$`, capturing groups, `(?:` `)`,
\* alternation, `[` characters `]`, and the greedy operators `*`, `+`, `?`.
\* Anything else is reported as a syntax error, so a pattern outside the
\* subset never becomes a route of the model.
\* ------------------------------------------------------------------------

RegexpPunct == {"$", "(", ")", "*", "+", "-", ".", "/", ":", "=", "?",
                "[", "\\", "]", "^", "_", "{", "|", "}"}
RegexpMeta == {"\\", ".", "+", "*", "?", "(", ")", "|", "[", "]", "{", "}", "^", "$"}

\* regexp.QuoteMeta(s).
RECURSIVE QuoteMeta(_)
QuoteMeta(s) ==
    IF s = <<>> THEN <<>>
    ELSE (IF Head(s) \in RegexpMeta THEN <<"\\", Head(s)>> ELSE <<Head(s)>>)
         \o QuoteMeta(Tail(s))

\* F(v), with v evaluated once.
Bind(v, F(_)) == CHOOSE y \in {F(x) : x \in {v}} : TRUE

ReFail == [ok |-> FALSE, node |-> [t |-> "fail"], i |-> 0, n |-> 0]

RECURSIVE ParseAlt(_, _, _)
RECURSIVE ParseCat(_, _, _, _)
RECURSIVE ParseAlts(_, _, _, _)
RECURSIVE ParseClass(_, _, _)

\* The characters of a bracket expression from position i to its "]".
ParseClass(re, i, set) ==
    IF i > Len(re) THEN [ok |-> FALSE, set |-> set, i |-> i]
    ELSE IF re[i] = "]" /\ set # {} THEN [ok |-> TRUE, set |-> set, i |-> i + 1]
    ELSE IF re[i] \in {"^", "-", "\\", "["} THEN [ok |-> FALSE, set |-> set, i |-> i]
    ELSE ParseClass(re, i + 1, set \cup {re[i]})

\* One atom at position i; n capturing groups have been opened before it.
ParseAtom(re, i, n) ==
    LET c == re[i] IN
    IF c = "(" THEN
        LET nc == i + 2 <= Len(re) /\ re[i + 1] = "?" /\ re[i + 2] = ":"
            bad == i + 1 <= Len(re) /\ re[i + 1] = "?" /\ ~nc
            g == IF nc THEN 0 ELSE n + 1
        IN  Bind(ParseAlt(re, IF nc THEN i + 3 ELSE i + 1, IF nc THEN n ELSE n + 1),
                 LAMBDA inner :
                   IF bad \/ ~inner.ok \/ inner.i > Len(re) \/ re[inner.i] # ")"
                   THEN ReFail
                   ELSE [ok |-> TRUE, i |-> inner.i + 1, n |-> inner.n,
                         node |-> [t |-> "grp", g |-> g, x |-> inner.node]])
    ELSE IF c = "\\" THEN
        IF i + 1 > Len(re) THEN ReFail
        ELSE IF re[i + 1] \in RegexpPunct
             THEN [ok |-> TRUE, i |-> i + 2, n |-> n,
                   node |-> [t |-> "set", set |-> {re[i + 1]}]]
        ELSE IF re[i + 1] = "d"
             THEN [ok |-> TRUE, i |-> i + 2, n |-> n,
                   node |-> [t |-> "set", set |-> {"0", "1", "2", "3"}]]
        ELSE ReFail
    ELSE IF c = "[" THEN
        Bind(ParseClass(re, i + 1, {}),
             LAMBDA cl : IF cl.ok THEN [ok |-> TRUE, i |-> cl.i, n |-> n,
                                        node |-> [t |-> "set", set |-> cl.set]]
                         ELSE ReFail)
    ELSE IF c = "." THEN [ok |-> TRUE, i |-> i + 1, n |-> n, node |-> [t |-> "any"]]
    ELSE IF c = "^" THEN [ok |-> TRUE, i |-> i + 1, n |-> n, node |-> [t |-> "bol"]]
    ELSE IF c = "$" THEN [ok |-> TRUE, i |-> i + 1, n |-> n, node |-> [t |-> "eol"]]
    ELSE IF c \in {"*", "+", "?", "]", "{", "}"} THEN ReFail
    ELSE [ok |-> TRUE, i |-> i + 1, n |-> n, node |-> [t |-> "set", set |-> {c}]]

\* A concatenation from position i up to "|", ")" or the end; xs is what has
\* been parsed of it.  Each atom is taken with the repetition operator that
\* may follow it.
ParseCat(re, i, n, xs) ==
    IF i > Len(re) \/ re[i] \in {"|", ")"}
    THEN [ok |-> TRUE, i |-> i, n |-> n,
          node |-> IF Len(xs) = 1 THEN xs[1] ELSE [t |-> "cat", xs |-> xs]]
    ELSE Bind(<<ParseAtom(re, i, n), xs>>, LAMBDA b :
           IF ~b[1].ok THEN ReFail
           ELSE IF b[1].i <= Len(re) /\ re[b[1].i] \in {"*", "+", "?"} THEN
                \* a repetition operator applies to an atom, never to an
                \* assertion or to another repetition
                IF b[1].node.t \in {"bol", "eol"}
                   \/ (b[1].i + 1 <= Len(re) /\ re[b[1].i + 1] \in {"*", "+", "?"})
                THEN ReFail
                ELSE ParseCat(re, b[1].i + 1, b[1].n,
                       Append(b[2], [t |-> (IF re[b[1].i] = "*" THEN "star"
                                            ELSE IF re[b[1].i] = "+" THEN "plus" ELSE "opt"),
                                     x |-> b[1].node]))
           ELSE ParseCat(re, b[1].i, b[1].n, Append(b[2], b[1].node)))

\* The alternatives after the first, each introduced by "|".
ParseAlts(re, i, n, xs) ==
    IF i <= Len(re) /\ re[i] = "|"
    THEN Bind(<<ParseCat(re, i + 1, n, <<>>), xs>>,
              LAMBDA c : IF ~c[1].ok THEN ReFail
                         ELSE ParseAlts(re, c[1].i, c[1].n, Append(c[2], c[1].node)))
    ELSE [ok |-> TRUE, i |-> i, n |-> n,
          node |-> IF Len(xs) = 1 THEN xs[1] ELSE [t |-> "alt", xs |-> xs]]

ParseAlt(re, i, n) ==
    Bind(ParseCat(re, i, n, <<>>),
         LAMBDA c : IF ~c.ok THEN ReFail ELSE ParseAlts(re, c.i, c.n, <<c.node>>))

\* regexp.Compile(re): the syntax tree and the number of capturing groups.
RegexpCompile(re) ==
    Bind(ParseAlt(re, 1, 0), LAMBDA p : IF p.ok /\ p.i = Len(re) + 1 THEN p ELSE ReFail)

\* The preferred way to match the nodes ks one after the other from position
\* i of s, as <<[i, caps]>>: the position after the match and the capture
\* offsets (0-based, -1 for a group that took no part); <<>> when there is
\* none.  A backtracking search in the order of preference of the syntax:
\* an alternative before the next, one more repetition before none.
\* A node that consumes exactly one character, and the characters it takes.
Simple(node) == node.t \in {"set", "any"}
Accepts(node, c) == node.t = "any" \/ c \in node.set

\* The number of simple nodes ks begins with.
Lead(ks) ==
    CHOOSE n \in 0..Len(ks) :
        /\ \A k \in 1..n : Simple(ks[k])
        /\ n = Len(ks) \/ ~Simple(ks[n + 1])

\* The number of characters of s from position i on that x accepts in a row,
\* at most max.
Run(x, s, i, max) ==
    CHOOSE m \in 0..max :
        /\ i + m - 1 <= Len(s)
        /\ \A k \in 0..(m - 1) : Accepts(x, s[i + k])
        /\ m = max \/ i + m > Len(s) \/ ~Accepts(x, s[i + m])

RECURSIVE Match(_, _, _, _)

\* A greedy repetition of a simple node that has m characters to take and
\* must take lo: the longest repetition the rest of the match accepts.
RECURSIVE Retry(_, _, _, _, _, _)
Retry(rest, s, i, m, lo, caps) ==
    IF m < lo THEN <<>>
    ELSE Bind(Match(rest, s, i + m, caps),
              LAMBDA r : IF r # <<>> THEN r ELSE Retry(rest, s, i, m - 1, lo, caps))

\* The nodes ks matched in turn from position i of s: <<>> when they do not
\* match, and otherwise the one match a backtracking search finds first.
MatchNodes(ks, s, i, caps) ==
    IF ks = <<>> THEN <<[i |-> i, caps |-> caps]>>
    ELSE
    LET node == Head(ks)
        rest == Tail(ks)
    IN
    CASE Simple(node) ->
           LET n == Lead(ks) IN
           IF i + n - 1 <= Len(s) /\ \A k \in 1..n : Accepts(ks[k], s[i + k - 1])
           THEN Match(SubSeq(ks, n + 1, Len(ks)), s, i + n, caps)
           ELSE <<>>
      [] node.t = "bol" -> IF i = 1 THEN Match(rest, s, i, caps) ELSE <<>>
      [] node.t = "eol" -> IF i = Len(s) + 1 THEN Match(rest, s, i, caps) ELSE <<>>
      [] node.t = "cat" -> Match(node.xs \o rest, s, i, caps)
      [] node.t = "alt" ->
           IF node.xs = <<>> THEN <<>>
           ELSE Bind(Match(<<Head(node.xs)>> \o rest, s, i, caps),
                     LAMBDA first :
                       IF first # <<>> THEN first
                       ELSE Match(<<[t |-> "alt", xs |-> Tail(node.xs)]>> \o rest, s, i, caps))
      [] node.t = "grp" ->
           IF node.g = 0 THEN Match(<<node.x>> \o rest, s, i, caps)
           ELSE Match(<<node.x, [t |-> "end", g |-> node.g, from |-> i]>> \o rest, s, i, caps)
      [] node.t = "end" ->
           Match(rest, s, i, [caps EXCEPT ![2 * node.g - 1] = node.from - 1,
                                          ![2 * node.g] = i - 1])
      [] node.t = "opt" ->
           IF Simple(node.x) THEN Retry(rest, s, i, Run(node.x, s, i, 1), 0, caps)
           ELSE Bind(Match(<<node.x>> \o rest, s, i, caps),
                     LAMBDA taken : IF taken # <<>> THEN taken ELSE Match(rest, s, i, caps))
      [] node.t = "star" ->
           IF Simple(node.x) THEN Retry(rest, s, i, Run(node.x, s, i, Len(s)), 0, caps)
           ELSE Bind(Match(<<node.x, [t |-> "more", x |-> node.x, from |-> i]>> \o rest,
                           s, i, caps),
                     LAMBDA again : IF again # <<>> THEN again ELSE Match(rest, s, i, caps))
      [] node.t = "more" ->
           \* one repetition has matched: an empty one ends the repetition
           IF i > node.from THEN Match(<<[t |-> "star", x |-> node.x]>> \o rest, s, i, caps)
           ELSE <<>>
      [] node.t = "plus" ->
           IF Simple(node.x) THEN Retry(rest, s, i, Run(node.x, s, i, Len(s)), 1, caps)
           ELSE Match(<<node.x, [t |-> "star", x |-> node.x]>> \o rest, s, i, caps)

\* MatchNodes, with its arguments evaluated once.
Match(ks, s, i, caps) ==
    Bind(<<ks, s, i, caps>>, LAMBDA a : MatchNodes(a[1], a[2], a[3], a[4]))

\* The capture registers before a match attempt: n unset positions.
RECURSIVE Repeat(_, _)
Repeat(v, n) == IF n = 0 THEN <<>> ELSE Append(Repeat(v, n - 1), v)
Unset(n) == Repeat(-1, n)

RECURSIVE FindFrom(_, _, _)
FindFrom(prog, s, start) ==
    IF start > Len(s) + 1 THEN <<>>
    ELSE Bind(Match(<<prog.node>>, s, start, Unset(2 * prog.n)),
              LAMBDA rs : IF rs # <<>> THEN <<start - 1, Head(rs).i - 1>> \o Head(rs).caps
                          ELSE FindFrom(prog, s, start + 1))

\* (*Regexp).FindStringSubmatchIndex(s) of the regexp compiled from re: the
\* leftmost match, as the offsets of the match and of every capturing group;
\* <<>> (Go's nil) when there is none.
FindStringSubmatchIndex(re, s) ==
    Bind(RegexpCompile(re), LAMBDA prog : FindFrom(prog, s, 1))

\* ------------------------------------------------------------------------
\* Parameter shape: readParams
\* ------------------------------------------------------------------------

\* A Go map is a function with a finite domain; m[k] of a missing key is the
\* zero value.
EmptyMap == [k \in {} |-> 0]
MapGet(m, k) == IF k \in DOMAIN m THEN m[k] ELSE 0
MapPut(m, k, v) == [x \in DOMAIN m \cup {k} |-> IF x = k THEN v ELSE m[x]]

\* A test that takes every name.
anyName(name) == TRUE

\* allowedNameRe, "^[a-zA-Z_]\\w*$".
allowedName(name) ==
    /\ name # <<>>
    /\ name[1] \in Letters \cup {"_"}
    /\ \A k \in 2..Len(name) : name[k] \in Letters \cup Digits \cup {"_"}

\* A test that takes every kind.
anyType(k) == TRUE

\* allowedType, on the kinds "int", "uint", "float", "string" (each standing
\* for all widths of its kind) and "slice" for a kind that is not allowed.
allowedType(k) == k \in {"int", "uint", "float", "string"}

\* The params argument of Handle is [shape, fields]: shape "nil" (nil, or a
\* nil pointer), "ptrStruct" (a pointer to a struct, the only valid form),
\* "struct" (a struct passed by value) or "ptrOther" (a pointer to something
\* else); fields are the struct's fields in declaration order, each
\* [name, tag, kind], tag <<>> when the field has no rhttp tag.
\* A reflect.Type is [nil, fields].
NilType == [nil |-> TRUE, fields |-> <<>>]

\* A loop in which an untagged field takes its name even when a tagged field
\* already holds it.
RECURSIVE readParamsLoopOverwrite(_, _, _)
readParamsLoopOverwrite(fields, i, nameToField) ==
    IF i >= Len(fields) THEN [nameToField |-> nameToField, err |-> "nil"]
    ELSE LET f == fields[i + 1] IN
         IF Len(f.tag) # 0 THEN
             IF ~allowedName(f.tag) THEN [nameToField |-> nameToField, err |-> "Invalid param name"]
             ELSE IF ~allowedType(f.kind) THEN [nameToField |-> nameToField, err |-> "Invalid param type"]
             ELSE readParamsLoopOverwrite(fields, i + 1, MapPut(nameToField, f.tag, i))
         ELSE IF allowedType(f.kind) /\ allowedName(f.name)
              THEN readParamsLoopOverwrite(fields, i + 1, MapPut(nameToField, f.name, i))
              ELSE readParamsLoopOverwrite(fields, i + 1, nameToField)

\* The loop over the fields, from field i (0-based) on.
RECURSIVE readParamsLoop(_, _, _)
readParamsLoop(fields, i, nameToField) ==
    IF i >= Len(fields) THEN [nameToField |-> nameToField, err |-> "nil"]
    ELSE LET f == fields[i + 1] IN
         IF Len(f.tag) # 0 THEN
             IF ~allowedName(f.tag) THEN [nameToField |-> nameToField, err |-> "Invalid param name"]
             ELSE IF ~allowedType(f.kind) THEN [nameToField |-> nameToField, err |-> "Invalid param type"]
             ELSE readParamsLoop(fields, i + 1, MapPut(nameToField, f.tag, i))
         ELSE IF allowedType(f.kind) /\ allowedName(f.name) /\ f.name \notin DOMAIN nameToField
              THEN readParamsLoop(fields, i + 1, MapPut(nameToField, f.name, i))
              ELSE readParamsLoop(fields, i + 1, nameToField)

\* readParams(params): nameToField, paramsType and err ("nil" for no error).
readParams(params) ==
    IF params.shape = "nil"
    THEN [nameToField |-> EmptyMap, paramsType |-> NilType, err |-> "nil"]
    ELSE IF params.shape = "struct"
    THEN [nameToField |-> EmptyMap, paramsType |-> NilType, err |-> "params not a struct pointer"]
    ELSE IF params.shape # "ptrStruct"
    THEN [nameToField |-> EmptyMap, paramsType |-> NilType, err |-> "*params is not a struct"]
    ELSE LET r == readParamsLoop(params.fields, 0, EmptyMap) IN
         [nameToField |-> r.nameToField,
          paramsType |-> [nil |-> FALSE, fields |-> params.fields],
          err |-> r.err]

\* ------------------------------------------------------------------------
\* Pattern compiler: compilePattern
\* ------------------------------------------------------------------------

RECURSIVE removeEscapesLoop(_, _, _, _)
removeEscapesLoop(s, i, begin, unescaped) ==
    IF i >= Len(s) THEN unescaped \o Slice(s, begin, Len(s))
    ELSE IF s[i + 1] = "\\"
         THEN removeEscapesLoop(s, i + 2, i + 1, unescaped \o Slice(s, begin, i))
         ELSE removeEscapesLoop(s, i + 1, begin, unescaped)

removeEscapes(s) == removeEscapesLoop(s, 0, 0, <<>>)

NoError == [cause |-> "nil", currentGroup |-> <<>>, pattern |-> <<>>, name |-> <<>>, at |-> 0]

\* The locals of compilePattern before its loop; ret is set by a return
\* inside the loop.
compileStart ==
    [err |-> NoError, prefix |-> <<>>, paramsIndex |-> EmptyMap, paramIndex |-> 0,
     groupBegin |-> 0, groupEnd |-> 0, equals |-> 0, parens |-> 0,
     regexpString |-> <<>>, escape |-> FALSE, ret |-> NoError]

\* r == '(' outside a group: the literal piece before it is copied, quoted,
\* and the group opens.
openGroup(st, pattern, i) ==
    LET piece == removeEscapes(Slice(pattern, st.groupEnd, i)) IN
    [st EXCEPT !.parens = 1,
               !.regexpString = @ \o QuoteMeta(piece) \o <<"(">>,
               !.prefix = IF st.groupBegin = 0 THEN piece ELSE @,
               !.groupBegin = i,
               !.equals = i]

\* A closing of the group that copies the group's whole text, its name and
\* "=" included.
closeGroupWhole(st, pattern, i) ==
    IF st.err.cause # "nil"
    THEN [st EXCEPT !.parens = 0, !.groupEnd = i + 1,
                    !.ret = [st.err EXCEPT !.currentGroup = Slice(pattern, st.groupBegin, i + 1),
                                           !.pattern = pattern]]
    ELSE [st EXCEPT !.parens = 0, !.groupEnd = i + 1,
                    !.regexpString = @ \o Slice(pattern, st.groupBegin + 1, i + 1)]

\* r == ')' closing the group: a pending error is returned, else the group's
\* text after its "=" is copied.
closeGroup(st, pattern, i) ==
    IF st.err.cause # "nil"
    THEN [st EXCEPT !.parens = 0, !.groupEnd = i + 1,
                    !.ret = [st.err EXCEPT !.currentGroup = Slice(pattern, st.groupBegin, i + 1),
                                           !.pattern = pattern]]
    ELSE [st EXCEPT !.parens = 0, !.groupEnd = i + 1,
                    !.regexpString = @ \o Slice(pattern, st.equals + 1, i + 1)]

\* A named group that leaves the counter paramIndex where it is.
nameGroupSame(st, pattern, i, nameToField) ==
    LET name == Slice(pattern, st.groupBegin + 1, i)
        err == IF Len(name) = 0
               THEN [NoError EXCEPT !.cause = "MissingVariableName", !.at = st.groupBegin + 1]
               ELSE IF ~allowedName(name)
               THEN [NoError EXCEPT !.cause = "InvalidVariableName", !.name = name,
                                    !.at = st.groupBegin + 1]
               ELSE IF name \notin DOMAIN nameToField
               THEN [NoError EXCEPT !.cause = "UndefinedVariable", !.name = name,
                                    !.at = st.groupBegin + 1]
               ELSE st.err
    IN [st EXCEPT !.err = err,
                  !.paramsIndex = MapPut(@, MapGet(nameToField, name), st.paramIndex),
                  !.equals = i]

\* A named group whose name is not looked up in nameToField.
nameGroupAnyScope(st, pattern, i, nameToField) ==
    LET name == Slice(pattern, st.groupBegin + 1, i)
        err == IF Len(name) = 0
               THEN [NoError EXCEPT !.cause = "MissingVariableName", !.at = st.groupBegin + 1]
               ELSE IF ~allowedName(name)
               THEN [NoError EXCEPT !.cause = "InvalidVariableName", !.name = name,
                                    !.at = st.groupBegin + 1]
               ELSE st.err
    IN [st EXCEPT !.err = err,
                  !.paramsIndex = MapPut(@, MapGet(nameToField, name), st.paramIndex),
                  !.paramIndex = @ + 1,
                  !.equals = i]

\* r == '=' && equals == groupBegin: the text since the "(" is the name.
nameGroup(st, pattern, i, nameToField) ==
    LET name == Slice(pattern, st.groupBegin + 1, i)
        err == IF Len(name) = 0
               THEN [NoError EXCEPT !.cause = "MissingVariableName", !.at = st.groupBegin + 1]
               ELSE IF ~allowedName(name)
               THEN [NoError EXCEPT !.cause = "InvalidVariableName", !.name = name,
                                    !.at = st.groupBegin + 1]
               ELSE IF name \notin DOMAIN nameToField
               THEN [NoError EXCEPT !.cause = "UndefinedVariable", !.name = name,
                                    !.at = st.groupBegin + 1]
               ELSE st.err
    IN [st EXCEPT !.err = err,
                  !.paramsIndex = MapPut(@, MapGet(nameToField, name), st.paramIndex),
                  !.paramIndex = @ + 1,
                  !.equals = i]

\* A body of the loop that takes every "=" of a group for the end of a name.
compileStepEveryEquals(st, pattern, i, nameToField) ==
    LET r == pattern[i + 1] IN
    IF st.escape THEN [st EXCEPT !.escape = FALSE]
    ELSE IF st.parens = 0 THEN
        IF r = "\\" THEN [st EXCEPT !.escape = TRUE]
        ELSE IF r = "(" THEN openGroup(st, pattern, i)
        ELSE IF r = ")"
        THEN [st EXCEPT !.ret = [NoError EXCEPT !.cause = "UnmatchedRightParen",
                                                !.pattern = pattern, !.at = i]]
        ELSE st
    ELSE
        IF r = "(" THEN [st EXCEPT !.parens = @ + 1]
        ELSE IF r = ")" THEN
            IF st.parens = 1 THEN closeGroup(st, pattern, i)
            ELSE [st EXCEPT !.parens = @ - 1]
        ELSE IF r = "=" THEN nameGroup(st, pattern, i, nameToField)
        ELSE st

\* A body of the loop that takes an "=" for the end of a name only outside
\* the nested parentheses of the group.
compileStepDepthOne(st, pattern, i, nameToField) ==
    LET r == pattern[i + 1] IN
    IF st.escape THEN [st EXCEPT !.escape = FALSE]
    ELSE IF st.parens = 0 THEN
        IF r = "\\" THEN [st EXCEPT !.escape = TRUE]
        ELSE IF r = "(" THEN openGroup(st, pattern, i)
        ELSE IF r = ")"
        THEN [st EXCEPT !.ret = [NoError EXCEPT !.cause = "UnmatchedRightParen",
                                                !.pattern = pattern, !.at = i]]
        ELSE st
    ELSE
        IF r = "(" THEN [st EXCEPT !.parens = @ + 1]
        ELSE IF r = ")" THEN
            IF st.parens = 1 THEN closeGroup(st, pattern, i)
            ELSE [st EXCEPT !.parens = @ - 1]
        ELSE IF r = "=" /\ st.equals = st.groupBegin /\ st.parens = 1 THEN nameGroup(st, pattern, i, nameToField)
        ELSE st

\* The body of the loop for the character at offset i.
compileStep(st, pattern, i, nameToField) ==
    LET r == pattern[i + 1] IN
    IF st.escape THEN [st EXCEPT !.escape = FALSE]
    ELSE IF st.parens = 0 THEN
        IF r = "\\" THEN [st EXCEPT !.escape = TRUE]
        ELSE IF r = "(" THEN openGroup(st, pattern, i)
        ELSE IF r = ")"
        THEN [st EXCEPT !.ret = [NoError EXCEPT !.cause = "UnmatchedRightParen",
                                                !.pattern = pattern, !.at = i]]
        ELSE st
    ELSE
        IF r = "(" THEN [st EXCEPT !.parens = @ + 1]
        ELSE IF r = ")" THEN
            IF st.parens = 1 THEN closeGroup(st, pattern, i)
            ELSE [st EXCEPT !.parens = @ - 1]
        ELSE IF r = "=" /\ st.equals = st.groupBegin THEN nameGroup(st, pattern, i, nameToField)
        ELSE st

RECURSIVE compileLoop(_, _, _, _)
compileLoop(st, pattern, i, nameToField) ==
    IF i >= Len(pattern) \/ st.ret.cause # "nil" THEN st
    ELSE Bind(compileStep(st, pattern, i, nameToField),
              LAMBDA next : compileLoop(next, pattern, i + 1, nameToField))

\* An end of compilePattern that reports an open group at the end of the
\* pattern.
compileEndAtEnd(st, pattern) ==
    IF st.ret.cause # "nil"
    THEN [re |-> <<>>, prefix |-> <<>>, paramsIndex |-> st.paramsIndex, err |-> st.ret]
    ELSE IF st.parens # 0
    THEN [re |-> <<>>, prefix |-> <<>>, paramsIndex |-> st.paramsIndex,
          err |-> [NoError EXCEPT !.cause = "Unterminated", !.pattern = pattern,
                                  !.at = Len(pattern)]]
    ELSE LET piece == removeEscapes(Slice(pattern, st.groupEnd, Len(pattern)))
             re == <<"^">> \o st.regexpString \o QuoteMeta(piece) \o <<"$">>
             prefix == IF st.groupBegin = 0 THEN piece ELSE st.prefix
         IN IF RegexpCompile(re).ok
            THEN [re |-> re, prefix |-> prefix, paramsIndex |-> st.paramsIndex, err |-> NoError]
            ELSE [re |-> <<>>, prefix |-> prefix, paramsIndex |-> st.paramsIndex,
                  err |-> [NoError EXCEPT !.cause = "regexp"]]

\* compilePattern(pattern, nameToField), after its loop: re is the source of
\* the compiled regexp (<<>> for Go's nil), err.cause is "nil" on success.
compileEnd(st, pattern) ==
    IF st.ret.cause # "nil"
    THEN [re |-> <<>>, prefix |-> <<>>, paramsIndex |-> st.paramsIndex, err |-> st.ret]
    ELSE IF st.parens # 0
    THEN [re |-> <<>>, prefix |-> <<>>, paramsIndex |-> st.paramsIndex,
          err |-> [NoError EXCEPT !.cause = "Unterminated", !.pattern = pattern,
                                  !.at = st.groupBegin]]
    ELSE LET piece == removeEscapes(Slice(pattern, st.groupEnd, Len(pattern)))
             re == <<"^">> \o st.regexpString \o QuoteMeta(piece) \o <<"$">>
             prefix == IF st.groupBegin = 0 THEN piece ELSE st.prefix
         IN IF RegexpCompile(re).ok
            THEN [re |-> re, prefix |-> prefix, paramsIndex |-> st.paramsIndex, err |-> NoError]
            ELSE [re |-> <<>>, prefix |-> prefix, paramsIndex |-> st.paramsIndex,
                  err |-> [NoError EXCEPT !.cause = "regexp"]]

compilePattern(pattern, nameToField) ==
    Bind(compileLoop(compileStart, pattern, 0, nameToField),
         LAMBDA st : compileEnd(st, pattern))

\* ------------------------------------------------------------------------
\* Inputs of the model
\* ------------------------------------------------------------------------

MaxRoutes == 3
MaxPieces == 4
MaxFields == 4
MaxCalls == 2

NoParams == [shape |-> "nil", fields |-> <<>>]
\* struct { V1 int; V2 int } and struct { V1 int; V2 string }, the P1 and P2
\* of ExampleRegexpRouterTyped.
ParamsP1 == [shape |-> "ptrStruct",
             fields |-> <<[name |-> <<"V", "1">>, tag |-> <<>>, kind |-> "int"],
                          [name |-> <<"V", "2">>, tag |-> <<>>, kind |-> "int"]>>]
ParamsP2 == [shape |-> "ptrStruct",
             fields |-> <<[name |-> <<"V", "1">>, tag |-> <<>>, kind |-> "int"],
                          [name |-> <<"V", "2">>, tag |-> <<>>, kind |-> "string"]>>]

\* struct { V1 []int `rhttp:"V1"` } and struct { v string }.
ParamsBadTag == [shape |-> "ptrStruct",
                 fields |-> <<[name |-> <<"V", "1">>, tag |-> <<"V", "1">>, kind |-> "slice"]>>]
ParamsUnexported == [shape |-> "ptrStruct",
                     fields |-> <<[name |-> <<"v">>, tag |-> <<>>, kind |-> "string"]>>]

\* struct { v string; V1 int }.
ParamsMixed == [shape |-> "ptrStruct",
                fields |-> <<[name |-> <<"v">>, tag |-> <<>>, kind |-> "string"],
                             [name |-> <<"V", "1">>, tag |-> <<>>, kind |-> "int"]>>]

\* The registrations Handle is called with.
RegInputs ==
    << \* 1: "/a"
       [pattern |-> <<"/", "a">>, params |-> NoParams],
       \* 2: "/a(/?)"
       [pattern |-> <<"/", "a", "(", "/", "?", ")">>, params |-> NoParams],
       \* 3: "/(V1=.*)/(V2=.*)" with P1
       [pattern |-> <<"/", "(", "V", "1", "=", ".", "*", ")", "/",
                      "(", "V", "2", "=", ".", "*", ")">>, params |-> ParamsP1],
       \* 4: "/(V1=.*)/(V2=.*)" with P2
       [pattern |-> <<"/", "(", "V", "1", "=", ".", "*", ")", "/",
                      "(", "V", "2", "=", ".", "*", ")">>, params |-> ParamsP2],
       \* 5: "/a(/?)(V2=.*)" with P2: an anonymous group before a named one
       [pattern |-> <<"/", "a", "(", "/", "?", ")",
                      "(", "V", "2", "=", ".", "*", ")">>, params |-> ParamsP2],
       \* 6: "/ab"
       [pattern |-> <<"/", "a", "b">>, params |-> NoParams],
       \* 7: "(/)abc": the pattern begins with a group
       [pattern |-> <<"(", "/", ")", "a", "b", "c">>, params |-> NoParams],
       \* 8: "/a(V3=.*)" with P2: V3 is not a field of P2
       [pattern |-> <<"/", "a", "(", "V", "3", "=", ".", "*", ")">>, params |-> ParamsP2],
       \* 9: "/a" with a struct passed by value
       [pattern |-> <<"/", "a">>, params |-> [ParamsP1 EXCEPT !.shape = "struct"]],
       \* 10: "/ab" with a tagged field of a type that is not allowed
       [pattern |-> <<"/", "a", "b">>, params |-> ParamsBadTag],
       \* 11: "/(V1=?:.*)" with P1: the regexp of the named group makes it
       \* non-capturing
       [pattern |-> <<"/", "(", "V", "1", "=", "?", ":", ".", "*", ")">>,
        params |-> ParamsP1],
       \* 12: "/(v=.*)" with struct { v string }, an unexported field
       [pattern |-> <<"/", "(", "v", "=", ".", "*", ")">>, params |-> ParamsUnexported],
       \* 13: "/(V1=.*)" with nil params
       [pattern |-> <<"/", "(", "V", "1", "=", ".", "*", ")">>, params |-> NoParams],
       \* 14: "/(v=.*)/(V1=.*)" with struct { v string; V1 int }
       [pattern |-> <<"/", "(", "v", "=", ".", "*", ")", "/",
                      "(", "V", "1", "=", ".", "*", ")">>, params |-> ParamsMixed],
       \* 15: "/(V1=.(b*))/(V2=.*)" with P2: a group nested in a named group,
       \* as in ExampleRegexpRouterNested
       [pattern |-> <<"/", "(", "V", "1", "=", ".", "(", "b", "*", ")", ")", "/",
                      "(", "V", "2", "=", ".", "*", ")">>, params |-> ParamsP2] >>

\* The registrations of the router of Spec, those of SpecPanic and those of
\* SpecNested.
BasicInputs == 1..10 \cup {13}
PanicInputs == {3, 8, 11, 12, 14}
NestedInputs == {4, 8, 15}

\* The registrations whose pattern begins with the literal "/".
SlashInputs == {k \in BasicInputs : RegInputs[k].pattern[1] = "/"}

\* The request paths ServeHTTP is called with.
Paths ==
    { <<"/", "a">>, <<"/", "a", "/">>, <<"/", "a", "c">>, <<"/", "a", "b">>,
      <<"/", "a", "b", "c">>, <<"/", "a", "1">>, <<"/", "1", "/", "2">>,
      <<"/", "1", "/", "a">>, <<"/", "b">> }

\* The registrations and the request paths of the router that serves several
\* calls of ServeHTTP at a time, each call named by a number.
ConcurrentInputs == {2, 3, 4}
ConcurrentPaths == { <<"/", "a", "/">>, <<"/", "1", "/", "a">>, <<"/", "1", "/", "2">> }
Callers == 1..MaxCalls

\* The pieces a pattern handed to compilePattern alone is built from, and the
\* nameToField it is compiled against.
Pieces ==
    { <<"/">>, <<".">>, <<"\\">>, <<"(">>, <<")">>, <<"=">>,
      <<"(", "v", "=">>, <<"(", "w", "=">>, <<"(", "s", "=">>, <<"=", ")">> }
CompileScope == MapPut(MapPut(EmptyMap, <<"v">>, 2), <<"w">>, 1)

\* The fields a struct handed to readParams alone is declared from. V1 and
\* V2 are the fields of TestReadParamsOverwrite, S1 and S those of
\* TestReadParamsNoOverwrite; v and s begin with a lower-case letter.
StructFields ==
    { [name |-> <<"V", "1">>, tag |-> <<>>, kind |-> "float"],
      [name |-> <<"V", "2">>, tag |-> <<"V", "1">>, kind |-> "uint"],
      [name |-> <<"S", "1">>, tag |-> <<"S">>, kind |-> "float"],
      [name |-> <<"S">>, tag |-> <<>>, kind |-> "uint"],
      [name |-> <<"v">>, tag |-> <<>>, kind |-> "string"],
      [name |-> <<"s">>, tag |-> <<"w">>, kind |-> "int"],
      [name |-> <<"V">>, tag |-> <<>>, kind |-> "slice"],
      [name |-> <<"V", "3">>, tag |-> <<"1">>, kind |-> "int"],
      [name |-> <<"S", "2">>, tag |-> <<"V", "2">>, kind |-> "slice"],
      \* a name of one letter outside ASCII, capital A with diaeresis: a
      \* field name of Go that allowedNameRe does not match
      [name |-> <<"U+00C4">>, tag |-> <<>>, kind |-> "int"] }

\* The forms of the argument handed to readParams alone: a pointer to the
\* struct, the struct by value, and a pointer to something that is no struct.
Shapes == {"ptrStruct", "struct", "ptrOther"}

\* ------------------------------------------------------------------------
\* The router
\* ------------------------------------------------------------------------

VARIABLES
    routes,     \* RegexpRouter.routes
    regs,       \* the index in RegInputs of each successful registration, in order
    halted,     \* a panic has ended the process
    thrown,     \* the value it was raised with, and the registration that raised it
    pc,         \* "idle", or where ServeHTTP stands: "keepLooking", "done", "panicked"
    path,       \* ServeHTTP: req.URL.Path
    h,          \* ServeHTTP: h
    tried,      \* ServeHTTP: the table indices whose regexp was run, in order
    outcome,    \* ServeHTTP: what the request got
    sent,       \* ServeHTTP: the handlers called and the NotFound sent, in order
    cpattern,   \* the pattern given to compilePattern on its own
    cpieces,    \* the number of pieces it was built from
    compiled,   \* what compilePattern returned for it
    pfields,    \* the fields of the struct given to readParams on its own
    pshape,     \* the form it is passed in
    resolved,   \* what readParams returned for it
    calls,      \* the locals of each call of ServeHTTP of the concurrent router
    serving     \* the first of these calls has been made

vars == <<routes, regs, halted, thrown, pc, path, h, tried, outcome, sent, cpattern, cpieces, compiled,
          pfields, pshape, resolved, calls, serving>>
routerVars == <<routes, regs, halted, thrown, pc, path, h, tried, outcome, sent>>
compileVars == <<cpattern, cpieces, compiled>>
paramsVars == <<pfields, pshape, resolved>>
callVars == <<calls, serving>>
aloneVars == <<compileVars, paramsVars, callVars>>

NotThrown == [reg |-> 0, cause |-> "nil"]
NoOutcome == [kind |-> "none", index |-> -1, handler |-> 0, params |-> <<>>]

\* A Handle that takes the results of readParams and compilePattern without
\* looking at their errors.
PreparedUnchecked ==
    [k \in DOMAIN RegInputs |->
        Bind(readParams(RegInputs[k].params), LAMBDA rp :
        Bind(compilePattern(RegInputs[k].pattern, rp.nameToField), LAMBDA c :
             [ok |-> TRUE,
              cause |-> IF rp.err # "nil" THEN rp.err ELSE c.err.cause,
              prefix |-> c.prefix, re |-> c.re, prog |-> RegexpCompile(c.re),
              paramsType |-> rp.paramsType, paramsIndex |-> c.paramsIndex]))]

\* What Handle computes before it touches the table, for each registration.
Prepared ==
    [k \in DOMAIN RegInputs |->
        Bind(readParams(RegInputs[k].params), LAMBDA rp :
        Bind(compilePattern(RegInputs[k].pattern, rp.nameToField), LAMBDA c :
             [ok |-> rp.err = "nil" /\ c.err.cause = "nil",
              cause |-> IF rp.err # "nil" THEN rp.err ELSE c.err.cause,
              prefix |-> c.prefix, re |-> c.re, prog |-> RegexpCompile(c.re),
              paramsType |-> rp.paramsType, paramsIndex |-> c.paramsIndex]))]

\* sort.Search(n, f), f given by its values f(0), ..., f(n-1).
RECURSIVE SearchLoop(_, _, _)
SearchLoop(f, i, j) ==
    IF i < j
    THEN LET m == (i + j) \div 2 IN
         IF ~f[m + 1] THEN SearchLoop(f, m + 1, j) ELSE SearchLoop(f, i, m)
    ELSE i
SortSearch(f) == SearchLoop(f, 0, Len(f))

\* Insertion after the routes of the same prefix, at the end of the table,
\* and at its front.
insertAfter(rs, prefix) ==
    SortSearch([i \in 1..Len(rs) |-> StrLess(prefix, rs[i].prefix)])
insertAtEnd(rs, prefix) == Len(rs)
insertAtFront(rs, prefix) == 0

\* Handle: the index the new route is inserted at.
insertIndex(rs, prefix) ==
    SortSearch([i \in 1..Len(rs) |-> ~StrLess(rs[i].prefix, prefix)])

\* Handle: append(r.routes[:i], append([]*regexpHandler{rh}, r.routes[i:]...)...)
insertAt(rs, i, rh) == SubSeq(rs, 1, i) \o <<rh>> \o SubSeq(rs, i + 1, Len(rs))

\* Handle(pattern, handler, params) for registration k, when nothing panics.
\* The handler is named by the number of the registration.
Handle(k) ==
    /\ ~halted /\ pc = "idle" /\ Len(routes) < MaxRoutes
    /\ Prepared[k].ok
    /\ LET rh == [handler |-> Len(regs) + 1,
                  prefix |-> Prepared[k].prefix,
                  re |-> Prepared[k].re,
                  prog |-> Prepared[k].prog,
                  paramsType |-> Prepared[k].paramsType,
                  paramsIndex |-> Prepared[k].paramsIndex]
       IN routes' = insertAt(routes, insertIndex(routes, rh.prefix), rh)
    /\ regs' = Append(regs, k)
    /\ UNCHANGED <<halted, thrown, pc, path, h, tried, outcome, sent, aloneVars>>

\* Handle when readParams or compilePattern returns an error: panic(err).
HandlePanics(k) ==
    /\ ~halted /\ pc = "idle" /\ Len(routes) < MaxRoutes
    /\ ~Prepared[k].ok
    /\ halted' = TRUE
    /\ thrown' = [reg |-> k, cause |-> Prepared[k].cause]
    /\ UNCHANGED <<routes, regs, pc, path, h, tried, outcome, sent, aloneVars>>

\* ServeHTTP up to the label keepLooking: h is the first index whose prefix
\* is greater than the path.
ServeHTTP(p) ==
    /\ ~halted /\ pc = "idle"
    /\ path' = p
    /\ h' = SortSearch([i \in 1..Len(routes) |-> StrLess(p, routes[i].prefix)])
    /\ tried' = <<>>
    /\ outcome' = NoOutcome
    /\ sent' = <<>>
    /\ pc' = "keepLooking"
    /\ UNCHANGED <<routes, regs, halted, thrown, aloneVars>>

\* A regexp that takes every path and captures the empty text at its start.
submatchAny(rh, s) == <<0, Len(s)>> \o Repeat(0, 2 * rh.prog.n)

\* r.routes[h].re.FindStringSubmatchIndex(path)
submatch(rh, s) == FindFrom(rh.prog, s, 1)

\* The for loop after keepLooking, entered with h = hh: where it stops, the
\* submatch indices it stops with, and the indices it ran a regexp at.
RECURSIVE scanLoop(_, _, _)
scanLoop(rs, s, hh) ==
    IF hh >= 0 /\ HasPrefix(s, rs[hh + 1].prefix)
    THEN Bind(submatch(rs[hh + 1], s), LAMBDA is :
         IF Len(is) # 0 THEN [h |-> hh, is |-> is, tried |-> <<hh>>]
         ELSE LET rest == scanLoop(rs, s, hh - 1) IN
              [rest EXCEPT !.tried = <<hh>> \o @])
    ELSE [h |-> hh, is |-> <<>>, tried |-> <<>>]

\* The values of the outermost submatches: the loop over is from i on.
RECURSIVE extractVals(_, _, _, _, _)
extractVals(is, s, i, matchEnd, vals) ==
    IF i >= Len(is) THEN vals
    ELSE IF is[i + 1] >= matchEnd
         THEN extractVals(is, s, i + 2, is[i + 2], Append(vals, Slice(s, is[i + 1], is[i + 2])))
         ELSE extractVals(is, s, i + 2, matchEnd, vals)

\* A conversion that never returns an error.
parseAlways(kind, s) == TRUE

\* strconv.ParseInt(s, 10, 64), ParseUint(s, 10, 64) and ParseFloat(s, 64)
\* return no error.  The values of the model have no exponent, no "inf" or
\* "nan", no base prefix and at most 8 digits.
parseOK(kind, s) ==
    CASE kind = "int" ->
           IF s # <<>> /\ s[1] \in {"+", "-"} THEN IsDigits(Tail(s)) ELSE IsDigits(s)
      [] kind = "uint" -> IsDigits(s)
      [] kind = "float" ->
           LET body == IF s # <<>> /\ s[1] \in {"+", "-"} THEN Tail(s) ELSE s IN
           /\ \A k \in 1..Len(body) : body[k] \in Digits \cup {"."}
           /\ \E k \in 1..Len(body) : body[k] \in Digits
           /\ Cardinality({k \in 1..Len(body) : body[k] = "."}) <= 1
      [] kind = "string" -> TRUE

\* The value a field is set to: a number for SetInt and SetUint, the text for
\* SetString (and for SetFloat, whose value the model keeps as its text).
parsedValue(kind, s) ==
    CASE kind = "int" ->
           IF s # <<>> /\ s[1] = "-"
           THEN [kind |-> kind, n |-> 0 - DecimalValue(Tail(s)), s |-> <<>>]
           ELSE IF s # <<>> /\ s[1] = "+"
           THEN [kind |-> kind, n |-> DecimalValue(Tail(s)), s |-> <<>>]
           ELSE [kind |-> kind, n |-> DecimalValue(s), s |-> <<>>]
      [] kind = "uint" -> [kind |-> kind, n |-> DecimalValue(s), s |-> <<>>]
      [] OTHER -> [kind |-> kind, n |-> 0, s |-> s]

\* reflect.New(paramsType): every field holds its zero value.
zeroValue(kind) == [kind |-> kind, n |-> 0, s |-> <<>>]

\* A field can be set through reflection when it is exported: its name
\* begins with an upper case letter.
settable(field) == field.name[1] \in {"S", "V"}

\* One iteration of the loop over paramsIndex, for field f: vals[v] panics
\* when v is out of range, a value that does not parse leaves by goto
\* keepLooking, and value.Set* panics on a field that is not exported.
fieldOutcome(rh, vals, f) ==
    IF rh.paramsIndex[f] >= Len(vals) THEN "panic"
    ELSE IF ~parseOK(rh.paramsType.fields[f + 1].kind, vals[rh.paramsIndex[f] + 1])
    THEN "mismatch"
    ELSE IF ~settable(rh.paramsType.fields[f + 1]) THEN "panic"
    ELSE "ok"

\* The ways the loop over paramsIndex can end.  The order in which range
\* visits a map is not specified, so any field that ends the loop can be the
\* one that does.
loopOutcomes(rh, vals) ==
    LET ends == {fieldOutcome(rh, vals, f) : f \in DOMAIN rh.paramsIndex} \ {"ok"}
    IN IF ends = {} THEN {"ok"} ELSE ends

\* The loop over paramsIndex can find a value that does not parse.
typeMismatch(rh, vals) == "mismatch" \in loopOutcomes(rh, vals)

\* The params struct after the loop over paramsIndex: the fields from the
\* f-th on, appended to those already set.
RECURSIVE setFields(_, _, _, _)
setFields(rh, vals, f, params) ==
    IF f > Len(rh.paramsType.fields) THEN params
    ELSE setFields(rh, vals, f + 1,
           Append(params,
                  IF (f - 1) \in DOMAIN rh.paramsIndex
                  THEN parsedValue(rh.paramsType.fields[f].kind,
                                   vals[rh.paramsIndex[f - 1] + 1])
                  ELSE zeroValue(rh.paramsType.fields[f].kind)))

buildParams(rh, vals) == setFields(rh, vals, 1, <<>>)

\* A goto keepLooking that comes back to the route it has just refused.
refusedAgain(hh) == hh + 1

\* goto keepLooking leaves h at the route that was refused; the decrement
\* after the label takes the search below it.
refused(hh) == hh

\* ServeHTTP from the label keepLooking, entered with the locals hh (h), tr
\* and out, to a return or to the next goto keepLooking: the ways it can go,
\* each by the locals and the position it leaves.
lookFrom(rs, s, hh, tr, out) ==
    Bind(scanLoop(rs, s, hh - 1), LAMBDA scan :
    LET rh == rs[scan.h + 1]
        vals == extractVals(scan.is, s, 2, 0, <<>>)
        left(o, at) == [h |-> IF at = "keepLooking" THEN refused(scan.h) ELSE scan.h,
                        tried |-> tr \o scan.tried, outcome |-> o, pc |-> at]
    IN IF Len(scan.is) = 0
       THEN {left([NoOutcome EXCEPT !.kind = "notfound"], "done")}
       ELSE IF rh.paramsType.nil
       THEN {left([kind |-> "handler", index |-> scan.h,
                   handler |-> rh.handler, params |-> <<>>], "done")}
       ELSE {IF end = "mismatch" THEN left(out, "keepLooking")
             ELSE IF end = "panic" THEN left([NoOutcome EXCEPT !.kind = "panic"], "panicked")
             ELSE left([kind |-> "handler", index |-> scan.h, handler |-> rh.handler,
                        params |-> buildParams(rh, vals)], "done") :
             end \in {e \in loopOutcomes(rh, vals) : e = "mismatch" => typeMismatch(rh, vals)}})

\* One call of ServeHTTP from the label keepLooking on.
KeepLooking ==
    /\ ~halted /\ pc = "keepLooking"
    /\ \E n \in lookFrom(routes, path, h, tried, outcome) :
         /\ h' = n.h
         /\ tried' = n.tried
         /\ outcome' = n.outcome
         /\ sent' = IF n.pc = "done" THEN Append(sent, n.outcome.kind) ELSE sent
         /\ pc' = n.pc
    /\ halted' = (halted \/ pc' = "panicked")
    /\ thrown' = IF pc' = "panicked" THEN [reg |-> 0, cause |-> "runtime error"] ELSE thrown
    /\ UNCHANGED <<routes, regs, path, aloneVars>>

\* ServeHTTP has returned; the router waits for the next call.
Return ==
    /\ ~halted /\ pc = "done"
    /\ pc' = "idle"
    /\ path' = <<>>
    /\ h' = 0
    /\ tried' = <<>>
    /\ outcome' = NoOutcome
    /\ sent' = <<>>
    /\ UNCHANGED <<routes, regs, halted, thrown, aloneVars>>

\* The locals of a call of ServeHTTP that is not running.
NoCall == [pc |-> "idle", path |-> <<>>, h |-> 0, tried |-> <<>>, outcome |-> NoOutcome]

\* A cursor that all calls read from the first call.
cursorShared(cs, i) == cs[1].h

\* The h of call i: a local variable of its call of ServeHTTP.
cursor(cs, i) == cs[i].h

\* A registration of the concurrent router: every Handle returns before the
\* first call of ServeHTTP.
Register(k) ==
    /\ ~serving
    /\ Handle(k)

\* Call i of ServeHTTP begins, up to the label keepLooking.
Call(i, p) ==
    /\ ~halted /\ calls[i].pc = "idle"
    /\ calls' = [calls EXCEPT ![i] =
                    [pc |-> "keepLooking", path |-> p,
                     h |-> SortSearch([j \in 1..Len(routes) |-> StrLess(p, routes[j].prefix)]),
                     tried |-> <<>>, outcome |-> NoOutcome]]
    /\ serving' = TRUE
    /\ UNCHANGED <<routerVars, compileVars, paramsVars>>

\* Call i goes on from the label keepLooking to a return or to the next
\* goto keepLooking.
Look(i) ==
    /\ ~halted /\ calls[i].pc = "keepLooking"
    /\ \E n \in lookFrom(routes, calls[i].path, cursor(calls, i),
                         calls[i].tried, calls[i].outcome) :
         /\ calls' = [calls EXCEPT ![i] = [pc |-> n.pc, path |-> calls[i].path, h |-> n.h,
                                           tried |-> n.tried, outcome |-> n.outcome]]
         /\ halted' = (n.pc = "panicked")
         /\ thrown' = IF n.pc = "panicked"
                      THEN [reg |-> 0, cause |-> "runtime error"] ELSE thrown
    /\ UNCHANGED <<routes, regs, pc, path, h, tried, outcome, sent, serving,
                   compileVars, paramsVars>>

\* Call i has returned.
Returned(i) ==
    /\ ~halted /\ calls[i].pc = "done"
    /\ calls' = [calls EXCEPT ![i] = NoCall]
    /\ UNCHANGED <<routerVars, compileVars, paramsVars, serving>>

\* compilePattern on a pattern of its own, grown by one piece.
CompilePiece(p) ==
    /\ cpieces < MaxPieces
    /\ cpattern' = cpattern \o p
    /\ cpieces' = cpieces + 1
    /\ compiled' = compilePattern(cpattern \o p, CompileScope)
    /\ UNCHANGED <<routerVars, paramsVars, callVars>>

\* readParams on a pointer to a struct of its own, grown by one field; a
\* struct declares each field name once.
DeclareField(f) ==
    /\ Len(pfields) < MaxFields
    /\ pshape # "ptrOther"
    /\ \A k \in DOMAIN pfields : pfields[k].name # f.name
    /\ pfields' = Append(pfields, f)
    /\ resolved' = readParams([shape |-> pshape, fields |-> Append(pfields, f)])
    /\ UNCHANGED <<routerVars, compileVars, callVars, pshape>>

\* readParams on the same fields passed in another form; what is no struct
\* has no fields.
PassAs(shape) ==
    /\ shape # pshape
    /\ shape = "ptrOther" => pfields = <<>>
    /\ pshape' = shape
    /\ resolved' = readParams([shape |-> shape, fields |-> pfields])
    /\ UNCHANGED <<routerVars, compileVars, callVars, pfields>>

Init ==
    /\ routes = <<>>
    /\ regs = <<>>
    /\ halted = FALSE
    /\ thrown = NotThrown
    /\ pc = "idle"
    /\ path = <<>>
    /\ h = 0
    /\ tried = <<>>
    /\ outcome = NoOutcome
    /\ sent = <<>>
    /\ cpattern = <<>>
    /\ cpieces = 0
    /\ compiled = compilePattern(<<>>, CompileScope)
    /\ pfields = <<>>
    /\ pshape = "ptrStruct"
    /\ resolved = readParams([shape |-> "ptrStruct", fields |-> <<>>])
    /\ calls = [i \in Callers |-> NoCall]
    /\ serving = FALSE

Next ==
    \/ \E k \in BasicInputs : Handle(k)
    \/ \E k \in BasicInputs : HandlePanics(k)
    \/ \E p \in Paths : ServeHTTP(p)
    \/ KeepLooking
    \/ Return

\* The router with the registrations BasicInputs.
Spec == Init /\ [][Next]_vars

\* A call of ServeHTTP that has begun goes on until it returns or panics.
SpecFair == Spec /\ WF_vars(KeepLooking)

NextSlash ==
    \/ \E k \in SlashInputs : Handle(k)
    \/ \E k \in SlashInputs : HandlePanics(k)
    \/ \E p \in Paths : ServeHTTP(p)
    \/ KeepLooking
    \/ Return

\* The router when every pattern begins with the literal "/".
SpecSlash == Init /\ [][NextSlash]_vars

NextPanic ==
    \/ \E k \in PanicInputs : Handle(k)
    \/ \E k \in PanicInputs : HandlePanics(k)
    \/ \E p \in Paths : ServeHTTP(p)
    \/ KeepLooking
    \/ Return

\* The router with a named group that does not capture and with a field
\* that is not exported.
SpecPanic == Init /\ [][NextPanic]_vars

NextNested ==
    \/ \E k \in NestedInputs : Handle(k)
    \/ \E k \in NestedInputs : HandlePanics(k)
    \/ \E p \in Paths : ServeHTTP(p)
    \/ KeepLooking
    \/ Return

\* The router with a pattern that has a group inside a group.
SpecNested == Init /\ [][NextNested]_vars

NextCompile == \E p \in Pieces : CompilePiece(p)

\* compilePattern alone, on every pattern of at most MaxPieces pieces.
SpecCompile == Init /\ [][NextCompile]_vars

NextConcurrent ==
    \/ \E k \in ConcurrentInputs : Register(k)
    \/ \E i \in Callers : \E p \in ConcurrentPaths : Call(i, p)
    \/ \E i \in Callers : Look(i)
    \/ \E i \in Callers : Returned(i)

\* The router with every registration made before the first call of
\* ServeHTTP, and then MaxCalls calls of ServeHTTP running at a time, their
\* steps interleaved in any order.
SpecConcurrent == Init /\ [][NextConcurrent]_vars

NextParams ==
    \/ \E f \in StructFields : DeclareField(f)
    \/ \E shape \in Shapes : PassAs(shape)

\* readParams alone, on every struct of at most MaxFields of the fields, in
\* every form.
SpecParams == Init /\ [][NextParams]_vars

\* ------------------------------------------------------------------------
\* What the documentation says of a route and a path, stated apart from the
\* code of ServeHTTP
\* ------------------------------------------------------------------------

\* The table indices, counted from 0 as h is.
Indices == 0..(Len(routes) - 1)

\* p is a leading substring of s.
Leads(p, s) == Len(p) <= Len(s) /\ \A k \in 1..Len(p) : s[k] = p[k]

\* The offsets the anchored regexp of the route at index j matches the path
\* with; <<>> when it does not match.
Offsets(j) == FindStringSubmatchIndex(routes[j + 1].re, path)
Matches(j) == Offsets(j) # <<>>

\* The texts of the top-level captures, left to right: the captures from the
\* g-th group on that begin at or after end, the end of the last one kept.
RECURSIVE Captures(_, _, _, _)
Captures(is, s, g, end) ==
    IF 2 * g + 2 > Len(is) THEN <<>>
    ELSE IF is[2 * g + 1] >= end
         THEN <<SubSeq(s, is[2 * g + 1] + 1, is[2 * g + 2])>>
                \o Captures(is, s, g + 1, is[2 * g + 2])
         ELSE Captures(is, s, g + 1, end)

\* The text is a decimal numeral of the kind; every text is a string.
Numeral(s) == Len(s) > 0 /\ \A k \in 1..Len(s) : s[k] \in Digits
Parses(kind, s) ==
    CASE kind = "string" -> TRUE
      [] kind = "uint" -> Numeral(s)
      [] kind = "int" ->
           Numeral(s) \/ (Len(s) > 1 /\ s[1] \in {"+", "-"} /\ Numeral(Tail(s)))
      [] kind = "float" ->
           \E k \in 0..Len(s) : \E d \in 0..1 :
               /\ k + d <= Len(s)
               /\ k = 0 \/ Numeral(SubSeq(s, 1, k))
               /\ d = 1 => s[k + 1] = "."
               /\ k + d = Len(s) \/ Numeral(SubSeq(s, k + d + 1, Len(s)))
               /\ Len(s) > d

\* The route at index j accepts the path: its regexp matches, and every
\* capture bound to a field of its params parses as the kind of the field.
\* The capture bound to a field is the top-level capture whose ordinal
\* paramsIndex records for the field.
RouteAccepts(j) ==
    LET rh == routes[j + 1]
        is == Offsets(j)
    IN /\ is # <<>>
       /\ \/ rh.paramsType.nil
          \/ \A f \in DOMAIN rh.paramsIndex :
                 Parses(rh.paramsType.fields[f + 1].kind,
                        Captures(is, path, 1, 0)[rh.paramsIndex[f] + 1])

\* ServeHTTP has returned after calling a handler.
Invoked == pc = "done" /\ outcome.kind = "handler"

\* ------------------------------------------------------------------------
\* Dispatch
\* ------------------------------------------------------------------------

\* C1: ServeHTTP answers NotFound only when no route of the table accepts
\* the path: when it has returned and some route accepts the path, it has
\* called a handler.
C1_NotFoundOnlyWhenNoneAccepts ==
    (pc = "done" /\ \E j \in Indices : RouteAccepts(j)) => outcome.kind = "handler"

\* C2: the longest prefix wins: when ServeHTTP has called the handler of a
\* route, no route that accepts the path has a strictly longer prefix, and the
\* routes were tried from the longer prefixes to the shorter ones.
C2_LongestPrefixWins ==
    /\ Invoked =>
         \A j \in Indices :
             RouteAccepts(j) => Len(routes[j + 1].prefix) <= Len(routes[outcome.index + 1].prefix)
    /\ \A k, l \in DOMAIN tried :
         k < l => Len(routes[tried[k] + 1].prefix) >= Len(routes[tried[l] + 1].prefix)

\* C3: among the routes of one prefix that accept the path, the handler
\* ServeHTTP calls is that of the earliest registered, and a route is tried
\* only after every route of its prefix registered before it was tried and
\* did not accept the path.  (handler numbers the registrations in order.)
C3_EarliestOfAPrefixFirst ==
    /\ Invoked =>
         \A j \in Indices :
             (routes[j + 1].prefix = routes[outcome.index + 1].prefix /\ RouteAccepts(j))
                 => routes[outcome.index + 1].handler <= routes[j + 1].handler
    /\ \A k \in DOMAIN tried : \A j \in Indices :
         (/\ routes[j + 1].prefix = routes[tried[k] + 1].prefix
          /\ routes[j + 1].handler < routes[tried[k] + 1].handler)
             => (\E l \in 1..(k - 1) : tried[l] = j) /\ ~RouteAccepts(j)

\* Two routes of the prefix "/a" accept the path, a route of another prefix
\* was registered between them, and the handler of the first was called.
C3_Witness ==
    /\ Invoked /\ Len(regs) = 3
    /\ routes[outcome.index + 1].handler = 1
    /\ \E j, m \in Indices :
         /\ routes[j + 1].handler = 3 /\ RouteAccepts(j)
         /\ routes[j + 1].prefix = routes[outcome.index + 1].prefix
         /\ routes[m + 1].handler = 2
         /\ routes[m + 1].prefix # routes[outcome.index + 1].prefix

\* C4: a route whose regexp matches the path but one of whose bound captures
\* does not parse is not the route whose handler is called, and the search
\* goes on with the next lower index: that index is the next one tried, or
\* the search is about to look at it, or it ended there with NotFound because
\* there is no such index or its prefix does not lead the path.  With the
\* pattern "/(V1=.*)/(V2=.*)" registered with {V1 int; V2 int} and then with
\* {V1 int; V2 string}, the path "/1/a" is refused by the first and served
\* by the second.
C4_BacktrackOnMismatch ==
    /\ Invoked => RouteAccepts(outcome.index)
    /\ \A k \in DOMAIN tried :
         (Matches(tried[k]) /\ ~RouteAccepts(tried[k])) =>
             IF k < Len(tried) THEN tried[k + 1] = tried[k] - 1
             ELSE \/ pc = "keepLooking" /\ h = tried[k]
                  \/ /\ pc = "done" /\ outcome.kind = "notfound" /\ h = tried[k] - 1
                     /\ h < 0 \/ ~Leads(routes[h + 1].prefix, path)
    /\ (regs = <<3, 4>> /\ path = <<"/", "1", "/", "a">> /\ pc = "done")
           => outcome.kind = "handler" /\ outcome.handler = 2 /\ tried = <<1, 0>>

\* The example of C4 has been served: the second registration got V1 = 1 and
\* V2 = "a" after the first was refused.
C4_Witness ==
    /\ regs = <<3, 4>> /\ path = <<"/", "1", "/", "a">> /\ Invoked
    /\ tried = <<1, 0>> /\ Matches(1) /\ ~RouteAccepts(1)
    /\ outcome.handler = 2
    /\ outcome.params = <<[kind |-> "int", n |-> 1, s |-> <<>>],
                          [kind |-> "string", n |-> 0, s |-> <<"a">>]>>

\* A route ServeHTTP may call the handler of: its prefix leads the path and
\* it accepts the path.
Eligible(j) == Leads(routes[j + 1].prefix, path) /\ RouteAccepts(j)

\* C5: ServeHTTP calls a handler only for a route whose prefix leads the
\* path, whose regexp matches the path and whose bound captures all parse,
\* and it is the handler of that route; when the table has no such route
\* (it is empty, or no prefix leads the path, or no such route accepts) it
\* answers NotFound and calls no handler.
C5_HandlerOnlyForEligible ==
    pc = "done" =>
        /\ outcome.kind \in {"handler", "notfound"}
        /\ outcome.kind = "handler" =>
             /\ outcome.index \in Indices
             /\ Eligible(outcome.index)
             /\ outcome.handler = routes[outcome.index + 1].handler
        /\ (~\E j \in Indices : Eligible(j)) => outcome.kind = "notfound"

\* A handler was called with a params struct while another route of the
\* table may not be called for the path.
C5_Witness ==
    /\ Invoked /\ outcome.params # <<>>
    /\ \E j \in Indices : ~Eligible(j)

\* ------------------------------------------------------------------------
\* The route table
\* ------------------------------------------------------------------------

\* a is before b in the lexicographic order of their bytes.
Before(a, b) ==
    \E k \in 1..(Len(a) + 1) :
        /\ k <= Len(b)
        /\ \A m \in 1..(k - 1) : a[m] = b[m]
        /\ k = Len(a) + 1 \/ Code(a[k]) < Code(b[k])

\* C6: after any successful registrations, the table is in ascending
\* (non-decreasing) lexicographic order of prefix.
C6_TableAscendingByPrefix ==
    \A i, j \in DOMAIN routes : i < j => ~Before(routes[j].prefix, routes[i].prefix)

\* Three prefixes were registered from the greatest to the least, and the
\* table holds them from the least to the greatest.
C6_Witness ==
    /\ Len(routes) = 3
    /\ routes[1].handler = 3 /\ routes[2].handler = 2 /\ routes[3].handler = 1
    /\ Before(routes[1].prefix, routes[2].prefix)
    /\ Before(routes[2].prefix, routes[3].prefix)

\* C7: after any successful registrations, the entries of one prefix are a
\* run of the table in reverse order of registration (the latest at the
\* lowest index, the earliest at the highest), and the table holds every
\* registered route exactly once, under the prefix it was registered with.
C7_ReverseRegistrationWithinPrefix ==
    /\ \A i, j \in DOMAIN routes :
         (i < j /\ routes[i].prefix = routes[j].prefix) =>
             /\ routes[i].handler > routes[j].handler
             /\ \A m \in i..j : routes[m].prefix = routes[i].prefix
    /\ Len(routes) = Len(regs)
    /\ \A n \in DOMAIN regs :
         /\ Cardinality({i \in DOMAIN routes : routes[i].handler = n}) = 1
         /\ \A i \in DOMAIN routes :
                routes[i].handler = n => routes[i].prefix = Prepared[regs[n]].prefix

\* Three routes of one prefix: the table holds the third registered first
\* and the first registered last.
C7_Witness ==
    /\ Len(routes) = 3
    /\ routes[1].prefix = routes[3].prefix
    /\ routes[1].handler = 3 /\ routes[2].handler = 2 /\ routes[3].handler = 1

\* ------------------------------------------------------------------------
\* The groups of a pattern
\* ------------------------------------------------------------------------

\* The top-level groups of a pattern from position i on, left to right, each
\* by the positions of its parentheses; outside a group a backslash escapes
\* the character after it.  depth is the nesting at i, open the position of
\* the "(" of the group i is in.
RECURSIVE GroupsFrom(_, _, _, _)
GroupsFrom(p, i, depth, open) ==
    IF i > Len(p) THEN <<>>
    ELSE IF depth = 0
    THEN IF p[i] = "\\" THEN GroupsFrom(p, i + 2, 0, 0)
         ELSE IF p[i] = "(" THEN GroupsFrom(p, i + 1, 1, i)
         ELSE GroupsFrom(p, i + 1, 0, 0)
    ELSE IF p[i] = "(" THEN GroupsFrom(p, i + 1, depth + 1, open)
    ELSE IF p[i] = ")"
    THEN IF depth = 1
         THEN <<[open |-> open, close |-> i]>> \o GroupsFrom(p, i + 1, 0, 0)
         ELSE GroupsFrom(p, i + 1, depth - 1, open)
    ELSE GroupsFrom(p, i + 1, depth, open)
Groups(p) == GroupsFrom(p, 1, 0, 0)

\* A group is named when an "=" follows its "("; its name is the text
\* between the two.
GroupBody(p, g) == SubSeq(p, g.open + 1, g.close - 1)
IsNamed(p, g) == \E k \in 1..Len(GroupBody(p, g)) : GroupBody(p, g)[k] = "="
GroupName(p, g) ==
    LET body == GroupBody(p, g)
        eq == CHOOSE k \in 1..Len(body) :
                  body[k] = "=" /\ \A m \in 1..(k - 1) : body[m] # "="
    IN SubSeq(body, 1, eq - 1)

\* The names of the named groups among gs, left to right.
RECURSIVE NamesOf(_, _)
NamesOf(p, gs) ==
    IF gs = <<>> THEN <<>>
    ELSE IF IsNamed(p, Head(gs)) THEN <<GroupName(p, Head(gs))>> \o NamesOf(p, Tail(gs))
    ELSE NamesOf(p, Tail(gs))
Names(p) == NamesOf(p, Groups(p))

\* The number a numeral stands for, and the value a field of the kind holds
\* after the text was parsed into it.
RECURSIVE NumberFrom(_, _)
NumberFrom(s, acc) ==
    IF s = <<>> THEN acc
    ELSE NumberFrom(Tail(s), 10 * acc + (CHOOSE d \in 0..9 : Code(s[1]) = Code("0") + d))
ValueOf(kind, text) ==
    IF kind = "string" THEN [kind |-> kind, n |-> 0, s |-> text]
    ELSE IF ~Parses(kind, text) THEN [kind |-> "none", n |-> 0, s |-> text]
    ELSE IF text[1] = "-" THEN [kind |-> kind, n |-> 0 - NumberFrom(Tail(text), 0), s |-> <<>>]
    ELSE IF text[1] = "+" THEN [kind |-> kind, n |-> NumberFrom(Tail(text), 0), s |-> <<>>]
    ELSE [kind |-> kind, n |-> NumberFrom(text, 0), s |-> <<>>]

\* The pattern the route at index j was registered with, and the name a
\* field of a params struct goes by.
PatternOf(j) == RegInputs[regs[routes[j + 1].handler]].pattern
FieldName(f) == IF f.tag # <<>> THEN f.tag ELSE f.name

\* C8: an anonymous group is not represented in the params: when a handler
\* is called with a params struct, every field a named group of the pattern
\* is bound to holds the parsed text that very group captured, wherever the
\* anonymous groups of the pattern are, and a field no group names holds its
\* zero value.
C8_NamedSlotHoldsItsGroup ==
    (Invoked /\ ~routes[outcome.index + 1].paramsType.nil) =>
        LET j == outcome.index
            fields == routes[j + 1].paramsType.fields
            p == PatternOf(j)
            gs == Groups(p)
            texts == Captures(Offsets(j), path, 1, 0)
        IN /\ Len(outcome.params) = Len(fields)
           /\ Len(texts) = Len(gs)
           /\ \A f \in DOMAIN fields :
                /\ \A g \in DOMAIN gs :
                     (IsNamed(p, gs[g]) /\ GroupName(p, gs[g]) = FieldName(fields[f]))
                         => outcome.params[f] = ValueOf(fields[f].kind, texts[g])
                /\ (\A g \in DOMAIN gs :
                        IsNamed(p, gs[g]) => GroupName(p, gs[g]) # FieldName(fields[f]))
                         => outcome.params[f] = [kind |-> fields[f].kind, n |-> 0, s |-> <<>>]

\* ------------------------------------------------------------------------
\* compilePattern
\* ------------------------------------------------------------------------

\* A text with its escapes removed: a backslash stands for the character
\* after it.
RECURSIVE Unescaped(_)
Unescaped(s) ==
    IF s = <<>> THEN <<>>
    ELSE IF s[1] = "\\"
    THEN IF Len(s) = 1 THEN <<>> ELSE <<s[2]>> \o Unescaped(SubSeq(s, 3, Len(s)))
    ELSE <<s[1]>> \o Unescaped(Tail(s))

\* The literal span before the first group; the whole pattern when it has no
\* group.
LiteralSpan(p) ==
    IF Groups(p) = <<>> THEN p ELSE SubSeq(p, 1, Groups(p)[1].open - 1)

\* C9: for every pattern that compiles, the prefix is the literal span
\* before the first group with its escapes removed: empty when the pattern
\* begins with a group, the whole unescaped pattern when it has no group,
\* and never literal text that follows a group.
C9_PrefixIsSpanBeforeFirstGroup ==
    compiled.err.cause = "nil" => compiled.prefix = Unescaped(LiteralSpan(cpattern))

\* C10, as stated: for every pattern that compiles, the k-th named group
\* from the left, k counted from 0 over the named groups only, is recorded
\* as paramsIndex[field of its name] = k, and paramsIndex has no entry for a
\* field no group names.
C10_EveryNamedGroupRecorded ==
    compiled.err.cause = "nil" =>
        LET ns == Names(cpattern) IN
        /\ \A k \in DOMAIN ns :
             /\ CompileScope[ns[k]] \in DOMAIN compiled.paramsIndex
             /\ compiled.paramsIndex[CompileScope[ns[k]]] = k - 1
        /\ \A f \in DOMAIN compiled.paramsIndex :
             \E k \in DOMAIN ns : CompileScope[ns[k]] = f

\* C10, amended: for every pattern that compiles, paramsIndex has an entry
\* for exactly the fields the named groups name, and the entry of a field is
\* the ordinal, counted from 0 over the named groups only, of the last group
\* that names it: a later group of the same name replaces the entry of an
\* earlier one.
C10_LastNamedGroupRecorded ==
    compiled.err.cause = "nil" =>
        LET ns == Names(cpattern) IN
        /\ \A k \in DOMAIN ns :
             (\A l \in DOMAIN ns : l > k => ns[l] # ns[k]) =>
                 /\ CompileScope[ns[k]] \in DOMAIN compiled.paramsIndex
                 /\ compiled.paramsIndex[CompileScope[ns[k]]] = k - 1
        /\ \A f \in DOMAIN compiled.paramsIndex :
             \E k \in DOMAIN ns : CompileScope[ns[k]] = f

\* A pattern of two named groups of one name has compiled, and the entry of
\* the field is the ordinal of the second.
C10_Witness ==
    /\ compiled.err.cause = "nil"
    /\ Len(Names(cpattern)) = 2
    /\ Names(cpattern)[1] = Names(cpattern)[2]
    /\ compiled.paramsIndex[CompileScope[Names(cpattern)[1]]] = 1

\* The regexp of a group: its text without its name and "=".
GroupRegexp(p, g) ==
    IF IsNamed(p, g)
    THEN SubSeq(GroupBody(p, g), Len(GroupName(p, g)) + 2, Len(GroupBody(p, g)))
    ELSE GroupBody(p, g)

\* The literal spans and the groups gs of p from position from on, in their
\* order: a span with its escapes removed and then quoted, a group as "(",
\* its regexp and ")".
RECURSIVE RenderFrom(_, _, _)
RenderFrom(p, gs, from) ==
    IF gs = <<>> THEN QuoteMeta(Unescaped(SubSeq(p, from, Len(p))))
    ELSE QuoteMeta(Unescaped(SubSeq(p, from, Head(gs).open - 1)))
            \o <<"(">> \o GroupRegexp(p, Head(gs)) \o <<")">>
            \o RenderFrom(p, Tail(gs), Head(gs).close + 1)

\* C11: for every pattern that compiles, the source of the regexp is "^",
\* then the literal spans (escapes removed, metacharacters quoted) and the
\* groups ("(", the regexp of the group without its name and "=", ")") in
\* the order of the pattern, then "$".
C11_RegexpSource ==
    compiled.err.cause = "nil" =>
        compiled.re = <<"^">> \o RenderFrom(cpattern, Groups(cpattern), 1) \o <<"$">>

\* A pattern has compiled that has a quoted metacharacter and an escape
\* in a literal span and a named group.
C11_Witness ==
    /\ compiled.err.cause = "nil"
    /\ \E k \in 1..(Len(cpattern) - 1) : cpattern[k] = "\\" /\ cpattern[k + 1] = "."
    /\ \E k \in DOMAIN Groups(cpattern) : IsNamed(cpattern, Groups(cpattern)[k])
    /\ compiled.re = <<"^", "\\", ".", "(", ")", "$">>

\* ------------------------------------------------------------------------
\* Registration
\* ------------------------------------------------------------------------

\* Registration k fails: readParams or compilePattern returns an error.
Fails(k) ==
    \/ readParams(RegInputs[k].params).err # "nil"
    \/ compilePattern(RegInputs[k].pattern,
                      readParams(RegInputs[k].params).nameToField).err.cause # "nil"

\* C12: a registration that fails panics before it inserts anything and
\* leaves the table as it was: the step that panics changes neither the
\* table nor the list of registered routes, the table changes only by the
\* insertion of one route by a registration that does not fail, and after
\* the panic nothing changes any more.
C12_FailedRegistrationLeavesTable ==
    [][/\ (halted' /\ ~halted /\ pc = "idle") => (routes' = routes /\ regs' = regs)
       /\ routes' # routes =>
            \E k \in DOMAIN RegInputs :
                /\ ~Fails(k)
                /\ regs' = Append(regs, k)
                /\ \E i \in 1..Len(routes') :
                       routes = SubSeq(routes', 1, i - 1) \o SubSeq(routes', i + 1, Len(routes'))
       /\ halted => (routes' = routes /\ regs' = regs)]_vars

\* A registration has failed after two others had succeeded: the table
\* holds the two.
C12_Witness == halted /\ pc = "idle" /\ Len(routes) = 2 /\ Len(regs) = 2

\* C13: ServeHTTP never panics: for every table of successful registrations
\* and every path it ends by calling a handler or by NotFound; no index into
\* the captured values is out of range and no field fails to be set.
C13_DispatchNeverPanics == pc # "panicked" /\ outcome.kind # "panic"

\* ------------------------------------------------------------------------
\* The errors of compilePattern
\* ------------------------------------------------------------------------

\* The positions of the ")" met outside every group, from position i on.
RECURSIVE StraysFrom(_, _, _)
StraysFrom(p, i, depth) ==
    IF i > Len(p) THEN {}
    ELSE IF depth = 0
    THEN IF p[i] = "\\" THEN StraysFrom(p, i + 2, 0)
         ELSE IF p[i] = "(" THEN StraysFrom(p, i + 1, 1)
         ELSE IF p[i] = ")" THEN {i} \cup StraysFrom(p, i + 1, 0)
         ELSE StraysFrom(p, i + 1, 0)
    ELSE IF p[i] = "(" THEN StraysFrom(p, i + 1, depth + 1)
    ELSE IF p[i] = ")" THEN StraysFrom(p, i + 1, depth - 1)
    ELSE StraysFrom(p, i + 1, depth)
Strays(p) == StraysFrom(p, 1, 0)

\* An identifier: a letter or "_", then letters, digits and "_".
IsIdentifier(name) ==
    /\ Len(name) > 0
    /\ \A k \in 1..Len(name) :
           \/ name[k] = "_"
           \/ name[k] \in Letters
           \/ k > 1 /\ name[k] \in Digits

\* What is wrong with the name of a group, against the names of scope.
NameDefect(name, scope) ==
    IF name = <<>> THEN "MissingVariableName"
    ELSE IF ~IsIdentifier(name) THEN "InvalidVariableName"
    ELSE IF name \notin DOMAIN scope THEN "UndefinedVariable"
    ELSE "nil"
NameErrors == {"MissingVariableName", "InvalidVariableName", "UndefinedVariable"}

\* The groups of p, by their ordinal, whose name has a defect, and the error
\* compilePattern is to return for the group g.
Defective(p) ==
    {k \in DOMAIN Groups(p) :
        /\ IsNamed(p, Groups(p)[k])
        /\ NameDefect(GroupName(p, Groups(p)[k]), CompileScope) # "nil"}
NameError(p, g) ==
    [cause |-> NameDefect(GroupName(p, g), CompileScope),
     currentGroup |-> SubSeq(p, g.open, g.close),
     pattern |-> p,
     name |-> GroupName(p, g),
     at |-> g.open]

\* The group compilePattern is to report: the first defective group, when
\* no ")" outside a group comes before its end.
Reported(p, k) ==
    /\ k \in Defective(p)
    /\ \A m \in Defective(p) : m >= k
    /\ \A x \in Strays(p) : x > Groups(p)[k].close

\* C14: a group whose text before its first "=" is empty, is no identifier
\* or is an identifier the scope does not have makes compilePattern fail with
\* MissingVariableName, InvalidVariableName or UndefinedVariable, in that
\* priority; the error is returned when the ")" of the group is reached, so
\* only for a group that is closed, and it carries the text of the group
\* from "(" to ")", the pattern, and the offset of the "(" plus 1.
C14_NameErrors ==
    /\ \A k \in DOMAIN Groups(cpattern) :
           Reported(cpattern, k) => compiled.err = NameError(cpattern, Groups(cpattern)[k])
    /\ compiled.err.cause \in NameErrors =>
           \E k \in DOMAIN Groups(cpattern) : Reported(cpattern, k)

\* An undefined name is reported for the second group of a pattern, after a
\* group whose name is defined.
C14_Witness ==
    /\ compiled.err.cause = "UndefinedVariable"
    /\ Len(Groups(cpattern)) = 2 /\ Reported(cpattern, 2)
    /\ IsNamed(cpattern, Groups(cpattern)[1])
    /\ compiled.err.at = Groups(cpattern)[2].open

\* The position of the "(" of the group that is open at the end of p,
\* 0 when none is: open is the "(" of the group position i is in.
RECURSIVE OpenFrom(_, _, _, _)
OpenFrom(p, i, depth, open) ==
    IF i > Len(p) THEN (IF depth > 0 THEN open ELSE 0)
    ELSE IF depth = 0
    THEN IF p[i] = "\\" THEN OpenFrom(p, i + 2, 0, 0)
         ELSE IF p[i] = "(" THEN OpenFrom(p, i + 1, 1, i)
         ELSE OpenFrom(p, i + 1, 0, 0)
    ELSE IF p[i] = "(" THEN OpenFrom(p, i + 1, depth + 1, open)
    ELSE IF p[i] = ")" THEN OpenFrom(p, i + 1, depth - 1, open)
    ELSE OpenFrom(p, i + 1, depth, open)
OpenAtEnd(p) == OpenFrom(p, 1, 0, 0)

\* The first ")" outside a group is reached: no defective group ends
\* before it.
StrayReached(p, x) ==
    /\ x \in Strays(p)
    /\ \A y \in Strays(p) : y >= x
    /\ \A k \in Defective(p) : Groups(p)[k].close > x

\* The end of p is reached with a group open: there is no ")" outside a
\* group and no defective group before it.
OpenReached(p) == OpenAtEnd(p) # 0 /\ Strays(p) = {} /\ Defective(p) = {}

\* C15: a ")" met outside every group makes compilePattern fail at once
\* with UnmatchedRightParen at the offset of that character, whatever
\* follows; a pattern that ends in an open group fails with Unterminated at
\* the offset of the "(" of the outermost open group, also when an error of
\* its name is pending.
C15_ParenErrors ==
    /\ \A x \in 1..Len(cpattern) :
           StrayReached(cpattern, x) =>
               compiled.err = [cause |-> "UnmatchedRightParen", currentGroup |-> <<>>,
                               pattern |-> cpattern, name |-> <<>>, at |-> x - 1]
    /\ OpenReached(cpattern) =>
           compiled.err = [cause |-> "Unterminated", currentGroup |-> <<>>,
                           pattern |-> cpattern, name |-> <<>>,
                           at |-> OpenAtEnd(cpattern) - 1]
    /\ compiled.err.cause = "UnmatchedRightParen" =>
           \E x \in 1..Len(cpattern) : StrayReached(cpattern, x)
    /\ compiled.err.cause = "Unterminated" => OpenReached(cpattern)

\* A pattern ends in an open group, not its first character, whose name is
\* undefined and which holds a nested group: Unterminated is returned.
C15_Witness ==
    /\ compiled.err.cause = "Unterminated"
    /\ OpenAtEnd(cpattern) > 1
    /\ OpenAtEnd(cpattern) + 2 < Len(cpattern)
    /\ SubSeq(cpattern, OpenAtEnd(cpattern) + 1, OpenAtEnd(cpattern) + 2) = <<"s", "=">>
    /\ cpattern[Len(cpattern)] = ")"

\* The number of "=" in a text.
RECURSIVE CountEquals(_)
CountEquals(t) ==
    IF t = <<>> THEN 0 ELSE (IF Head(t) = "=" THEN 1 ELSE 0) + CountEquals(Tail(t))

\* Read with only the first "=" of each group as a separator, p has nothing
\* that makes compilePattern fail.
WellFormed(p) ==
    /\ Strays(p) = {} /\ OpenAtEnd(p) = 0 /\ Defective(p) = {}
    /\ RegexpCompile(<<"^">> \o RenderFrom(p, Groups(p), 1) \o <<"$">>).ok

\* C16: only the first "=" of a group separates the name from the regexp:
\* a later "=" of the group starts no name (the pattern compiles whenever it
\* does with the first "=" alone read as a separator), is copied into the
\* regexp (the regexp has every "=" of the pattern but one for each named
\* group) and does not advance the counter (the ordinals are below the
\* number of named groups); "(v==)" has the name v and the regexp "(=)"; and
\* the first "=" of a following group is a separator again.
C16_OnlyFirstEquals ==
    /\ WellFormed(cpattern) => compiled.err.cause = "nil"
    /\ compiled.err.cause = "nil" =>
         /\ CountEquals(compiled.re) = CountEquals(cpattern) - Len(Names(cpattern))
         /\ \A f \in DOMAIN compiled.paramsIndex :
                compiled.paramsIndex[f] < Len(Names(cpattern))
         /\ \A k \in DOMAIN Names(cpattern) :
                CompileScope[Names(cpattern)[k]] \in DOMAIN compiled.paramsIndex
    /\ cpattern = <<"(", "v", "=", "=", ")">> =>
         /\ compiled.err.cause = "nil"
         /\ compiled.re = <<"^", "(", "=", ")", "$">>
         /\ compiled.paramsIndex = MapPut(EmptyMap, CompileScope[<<"v">>], 0)

\* "(v==)(w=)" has compiled: the second "=" of the first group is part of
\* its regexp, and the second group has the name w and the ordinal 1.
C16_Witness ==
    /\ cpattern = <<"(", "v", "=", "=", ")", "(", "w", "=", ")">>
    /\ compiled.err.cause = "nil"
    /\ compiled.re = <<"^", "(", "=", ")", "(", ")", "$">>
    /\ compiled.paramsIndex[CompileScope[<<"v">>]] = 0
    /\ compiled.paramsIndex[CompileScope[<<"w">>]] = 1

\* The first "=" of the group comes after a "(" nested in the group.
NestedBeforeEquals(p, g) ==
    IsNamed(p, g) /\ \E k \in 1..Len(GroupName(p, g)) : GroupName(p, g)[k] = "("

\* The reading of C17 as stated: a group has a name only when its first "="
\* comes before any nested "(", and its regexp is then the text after that
\* "="; any other group is anonymous and its regexp is its whole text.
HasName(p, g) == IsNamed(p, g) /\ ~NestedBeforeEquals(p, g)
RECURSIVE RenderNamed(_, _, _)
RenderNamed(p, gs, from) ==
    IF gs = <<>> THEN QuoteMeta(Unescaped(SubSeq(p, from, Len(p))))
    ELSE QuoteMeta(Unescaped(SubSeq(p, from, Head(gs).open - 1)))
            \o <<"(">>
            \o (IF HasName(p, Head(gs)) THEN GroupRegexp(p, Head(gs))
                ELSE GroupBody(p, Head(gs)))
            \o <<")">>
            \o RenderNamed(p, Tail(gs), Head(gs).close + 1)

\* C17, as stated: a group whose first "=" comes after a nested "(" is
\* anonymous: its name is not validated, its whole text is its regexp and it
\* binds no field; so a pattern with nothing else wrong compiles, to the
\* regexp of that reading.
C17_NestedEqualsAnonymous ==
    LET p == cpattern
        re == <<"^">> \o RenderNamed(p, Groups(p), 1) \o <<"$">>
    IN (/\ \E k \in DOMAIN Groups(p) : NestedBeforeEquals(p, Groups(p)[k])
        /\ Strays(p) = {} /\ OpenAtEnd(p) = 0
        /\ \A k \in Defective(p) : NestedBeforeEquals(p, Groups(p)[k])
        /\ RegexpCompile(re).ok)
       => (compiled.err.cause = "nil" /\ compiled.re = re)

\* C17, amended: the first "=" of a group ends its name at whatever depth
\* of nested parentheses it stands, so a group whose first "=" comes after
\* a nested "(" has a name that is no identifier: the pattern does not
\* compile, and the error returned for this group is InvalidVariableName
\* with the text before the "=" as the name.  A group is anonymous only
\* when it holds no "=" at all.
C17_NestedEqualsInvalid ==
    \A k \in DOMAIN Groups(cpattern) :
        NestedBeforeEquals(cpattern, Groups(cpattern)[k]) =>
            /\ compiled.err.cause # "nil"
            /\ Reported(cpattern, k) =>
                 /\ compiled.err.cause = "InvalidVariableName"
                 /\ compiled.err.name = GroupName(cpattern, Groups(cpattern)[k])
                 /\ compiled.err.currentGroup =
                        SubSeq(cpattern, Groups(cpattern)[k].open, Groups(cpattern)[k].close)

\* "((v=))" was refused with InvalidVariableName for the name "(v".
C17_Witness ==
    /\ cpattern = <<"(", "(", "v", "=", ")", ")">>
    /\ NestedBeforeEquals(cpattern, Groups(cpattern)[1])
    /\ compiled.err.cause = "InvalidVariableName"
    /\ compiled.err.name = <<"(", "v">>

\* The top-level groups of p when a backslash escapes the character after
\* it inside a group as it does outside, and whether the parentheses of p
\* balance under that reading.
RECURSIVE EscapedScan(_, _, _, _, _)
EscapedScan(p, i, depth, open, gs) ==
    IF i > Len(p) THEN [groups |-> gs, balanced |-> depth = 0]
    ELSE IF p[i] = "\\" THEN EscapedScan(p, i + 2, depth, open, gs)
    ELSE IF p[i] = "("
    THEN EscapedScan(p, i + 1, depth + 1, IF depth = 0 THEN i ELSE open, gs)
    ELSE IF p[i] = ")"
    THEN IF depth = 0 THEN [groups |-> gs, balanced |-> FALSE]
         ELSE EscapedScan(p, i + 1, depth - 1, open,
                          IF depth = 1 THEN Append(gs, [open |-> open, close |-> i])
                          ELSE gs)
    ELSE EscapedScan(p, i + 1, depth, open, gs)
EscapedGroups(p) == EscapedScan(p, 1, 0, 0, <<>>)

\* C18: inside a group the usual escaping rules of regular expressions
\* hold: an escaped "(" or ")" is a literal character that neither changes
\* the depth nor closes the group.  So a pattern whose parentheses balance
\* under these rules, whose names are in scope and whose regexp is valid
\* compiles, to the regexp of its spans and of these groups.
C18_EscapesInsideGroups ==
    LET p == cpattern
        scan == EscapedGroups(p)
        re == <<"^">> \o RenderFrom(p, scan.groups, 1) \o <<"$">>
    IN (/\ scan.balanced
        /\ \A k \in DOMAIN scan.groups :
               IsNamed(p, scan.groups[k]) =>
                   NameDefect(GroupName(p, scan.groups[k]), CompileScope) = "nil"
        /\ RegexpCompile(re).ok)
       => (compiled.err.cause = "nil" /\ compiled.re = re)


\* ------------------------------------------------------------------------
\* readParams: which fields enter nameToField
\* ------------------------------------------------------------------------

\* A field is exported when its name begins with an upper-case letter.
IsExported(f) == f.name[1] \in {"S", "V"}

\* The fields (1-based) that nameToField points at.
Entered == { resolved.nameToField[n] + 1 : n \in DOMAIN resolved.nameToField }

\* C19: only exported fields participate: when readParams succeeds, every
\* field that nameToField points at, tagged or untagged, is exported.
C19_OnlyExportedFieldsEnter ==
    resolved.err = "nil" => \A k \in Entered : IsExported(pfields[k])

\* An untagged field that readParams takes by its name.
EligibleField(f) == f.tag = <<>> /\ allowedType(f.kind) /\ allowedName(f.name)

\* Field t is tagged with the name of the untagged eligible field u.
Shadows(t, u) ==
    /\ pfields[t].tag # <<>>
    /\ EligibleField(pfields[u])
    /\ pfields[t].tag = pfields[u].name

\* C20: when a tagged field's tag is the name of an untagged eligible field
\* and readParams succeeds, nameToField binds that name to the index of the
\* tagged field, whichever of the two is declared first.
C20_TaggedFieldTakesTheName ==
    resolved.err = "nil" =>
        \A t, u \in DOMAIN pfields :
            Shadows(t, u) =>
                /\ pfields[u].name \in DOMAIN resolved.nameToField
                /\ resolved.nameToField[pfields[u].name] = t - 1

\* A struct in which one tagged field is declared after the untagged field
\* whose name it takes and another before, and readParams succeeded.
C20_Witness ==
    /\ resolved.err = "nil"
    /\ \E t, u \in DOMAIN pfields : Shadows(t, u) /\ u < t
    /\ \E t, u \in DOMAIN pfields : Shadows(t, u) /\ t < u


\* The kinds a field bound to a variable may have: signed and unsigned
\* integers, floats and strings.
AllowedKind(k) == k \in {"int", "uint", "float", "string"}

\* A tagged field that readParams refuses: its kind is not allowed or its
\* tag is no identifier.
BadTagged(f) == f.tag # <<>> /\ (~AllowedKind(f.kind) \/ ~IsIdentifier(f.tag))

\* An untagged field that readParams passes over: its kind is not allowed or
\* its name is no identifier.
Skipped(f) == f.tag = <<>> /\ (~AllowedKind(f.kind) \/ ~IsIdentifier(f.name))

\* C21: readParams returns an error when the argument is not a pointer to a
\* struct, and when some tagged field has a kind that is not allowed or a tag
\* that is no identifier; otherwise it returns no error, and an untagged field
\* whose kind is not allowed or whose name is no identifier has no entry in
\* nameToField.
C21_TaggedFailsUntaggedSkipped ==
    /\ pshape # "ptrStruct" => resolved.err # "nil"
    /\ (pshape = "ptrStruct" /\ \E k \in DOMAIN pfields : BadTagged(pfields[k]))
           => resolved.err # "nil"
    /\ (pshape = "ptrStruct" /\ \A k \in DOMAIN pfields : ~BadTagged(pfields[k]))
           => /\ resolved.err = "nil"
              /\ \A k \in DOMAIN pfields : Skipped(pfields[k]) => k \notin Entered

\* readParams succeeded on a struct with an untagged field of a kind that is
\* not allowed, an untagged field whose name is no identifier, and a field
\* that entered nameToField.
C21_Witness ==
    /\ pshape = "ptrStruct" /\ resolved.err = "nil"
    /\ \E k \in DOMAIN pfields : Skipped(pfields[k]) /\ ~AllowedKind(pfields[k].kind)
    /\ \E k \in DOMAIN pfields : Skipped(pfields[k]) /\ ~IsIdentifier(pfields[k].name)
    /\ Entered # {}


\* ------------------------------------------------------------------------
\* Routes registered with nil params
\* ------------------------------------------------------------------------

\* The params the route at index j was registered with are nil.
NilParams(j) == RegInputs[regs[routes[j + 1].handler]].params.shape = "nil"

\* The names of the pattern that are identifiers.
Variables(p) == {k \in DOMAIN Names(p) : IsIdentifier(Names(p)[k])}

\* C22: a route registered with nil params has an empty paramsIndex and no
\* paramsType, and its pattern has no named group; when its regexp matches
\* the path the search ends there and its handler is called with no params;
\* a registration with nil params whose pattern names a variable panics
\* with UndefinedVariable.
C22_NilParamsRoute ==
    /\ \A j \in Indices :
         NilParams(j) =>
             /\ routes[j + 1].paramsType.nil
             /\ routes[j + 1].paramsIndex = EmptyMap
             /\ Names(PatternOf(j)) = <<>>
    /\ \A k \in DOMAIN tried :
         (NilParams(tried[k]) /\ Matches(tried[k])) =>
             /\ k = Len(tried)
             /\ pc = "done"
             /\ outcome = [kind |-> "handler", index |-> tried[k],
                           handler |-> routes[tried[k] + 1].handler, params |-> <<>>]
    /\ (/\ halted /\ thrown.reg \in DOMAIN RegInputs
        /\ RegInputs[thrown.reg].params.shape = "nil"
        /\ Variables(RegInputs[thrown.reg].pattern) # {})
           => thrown.cause = "UndefinedVariable"

\* The handler of a route registered with nil params, whose pattern has a
\* group, was called after the regexp of another route did not match.
C22_Witness ==
    /\ Invoked /\ NilParams(outcome.index)
    /\ Groups(PatternOf(outcome.index)) # <<>>
    /\ outcome.params = <<>>
    /\ Len(tried) > 1


\* ------------------------------------------------------------------------
\* Calls of ServeHTTP running at a time
\* ------------------------------------------------------------------------

\* What a call of ServeHTTP that runs alone on the table rs ends with, from
\* the label keepLooking with the locals hh, tr and out on.
RECURSIVE AloneFrom(_, _, _, _, _)
AloneFrom(rs, s, hh, tr, out) ==
    UNION {IF n.pc = "keepLooking" THEN AloneFrom(rs, s, n.h, n.tried, n.outcome)
           ELSE {[outcome |-> n.outcome, tried |-> n.tried]} :
           n \in lookFrom(rs, s, hh, tr, out)}
Alone(rs, s) ==
    AloneFrom(rs, s, SortSearch([j \in 1..Len(rs) |-> StrLess(s, rs[j].prefix)]),
              <<>>, NoOutcome)

\* C23: once the first call of ServeHTTP has been made no step changes the
\* table, and every call that has come to its end, whatever the other calls
\* did in between, has the outcome (the route, its handler and the params,
\* or NotFound) and has tried the routes that the same call has when it runs
\* alone on the table.
C23_ConcurrentCallsAsAlone ==
    /\ [](\A i \in Callers :
            calls[i].pc = "done" =>
                [outcome |-> calls[i].outcome, tried |-> calls[i].tried]
                    \in Alone(routes, calls[i].path))
    /\ [][serving => (routes' = routes /\ regs' = regs /\ serving')]_vars

\* Two calls are running: the first has called a handler with params after
\* a route refused its path, the second has had its path refused by a route
\* and has not yet gone on.
C23_Witness ==
    /\ calls[1].pc = "done" /\ calls[1].outcome.kind = "handler"
    /\ calls[1].outcome.params # <<>> /\ Len(calls[1].tried) = 2
    /\ calls[2].pc = "keepLooking" /\ Len(calls[2].tried) = 1
    /\ calls[2].path # calls[1].path


\* ------------------------------------------------------------------------
\* The order of the loop over paramsIndex
\* ------------------------------------------------------------------------

\* C24: what a call of ServeHTTP ends with is fixed by the table and the
\* path: whatever order the loop over paramsIndex visits the fields in, every
\* call for the path on the table ends as the call that has ended did, with
\* the same route, handler and params, or with NotFound.
C24_OutcomeFixedByTableAndPath ==
    pc \in {"done", "panicked"} =>
        \A a \in Alone(routes, path) : a.outcome = outcome


\* ------------------------------------------------------------------------
\* The values of the top-level groups
\* ------------------------------------------------------------------------

\* The groups of a regexp that are inside no other group, left to right from
\* position i on, each by the number regexp gives its capture (0 for a group
\* that does not capture); n groups that capture have been opened before i.
RECURSIVE TopGroupsFrom(_, _, _, _)
TopGroupsFrom(re, i, depth, n) ==
    IF i > Len(re) THEN <<>>
    ELSE IF re[i] = "\\" THEN TopGroupsFrom(re, i + 2, depth, n)
    ELSE IF re[i] = "("
    THEN LET nc == i + 2 <= Len(re) /\ re[i + 1] = "?" /\ re[i + 2] = ":"
             m == IF nc THEN n ELSE n + 1
         IN (IF depth = 0 THEN << IF nc THEN 0 ELSE m >> ELSE <<>>)
                \o TopGroupsFrom(re, i + 1, depth + 1, m)
    ELSE IF re[i] = ")" THEN TopGroupsFrom(re, i + 1, depth - 1, n)
    ELSE TopGroupsFrom(re, i + 1, depth, n)
TopGroups(re) == TopGroupsFrom(re, 1, 0, 0)

\* The text each top-level group of the regexp captured, given the offsets
\* of a match of s.
TopTexts(re, is, s) ==
    [k \in 1..Len(TopGroups(re)) |->
        LET g == TopGroups(re)[k] IN
        IF g = 0 THEN <<"(?:">> ELSE SubSeq(s, is[2 * g + 1] + 1, is[2 * g + 2])]

\* C25: whenever the regexp of a route with params has matched the path, the
\* values ServeHTTP extracts are the texts of the top-level groups of the
\* pattern, one for each, left to right; what a group inside a group
\* captured is not among them, even when it is empty.
C25_OneValuePerTopLevelGroup ==
    \A k \in DOMAIN tried :
        LET rh == routes[tried[k] + 1]
            is == Offsets(tried[k])
        IN (is # <<>> /\ ~rh.paramsType.nil) =>
               /\ Len(TopGroups(rh.re)) = Len(Groups(PatternOf(tried[k])))
               /\ extractVals(is, path, 2, 0, <<>>) = TopTexts(rh.re, is, path)


\* ------------------------------------------------------------------------
\* What a call of ServeHTTP sends
\* ------------------------------------------------------------------------

\* C26: every call of ServeHTTP sends exactly one thing: when it has ended
\* it has called one handler once or sent NotFound once, never both and
\* never two handlers; while it is still looking, after a route was refused
\* for a value that does not parse, it has sent nothing.
C26_ExactlyOneOutcome ==
    /\ pc \in {"done", "panicked"} =>
         /\ Len(sent) = 1
         /\ sent[1] \in {"handler", "notfound"}
         /\ sent[1] = outcome.kind
    /\ pc = "keepLooking" => (sent = <<>> /\ outcome = NoOutcome)


\* ------------------------------------------------------------------------
\* Termination of ServeHTTP
\* ------------------------------------------------------------------------

\* C27: every call of ServeHTTP ends; each time it passes the label
\* keepLooking, the first time and after every route refused for a value
\* that does not parse, h comes out strictly lower and never below -1, so
\* the indices whose regexp is run are strictly descending: no route is
\* tried twice and a refused route is never tried again.
C27_DispatchTerminates ==
    /\ (pc = "keepLooking") ~> (pc \in {"done", "panicked"})
    /\ [][pc = "keepLooking" => (h' < h /\ h' >= -1)]_vars
    /\ [](\A k, l \in DOMAIN tried : k < l => tried[l] < tried[k])

\* A call has ended after three routes were tried, the first two of them
\* refused for a value that does not parse.
C27_Witness ==
    /\ pc = "done" /\ Len(tried) = 3
    /\ \A k \in 1..2 : Matches(tried[k]) /\ ~RouteAccepts(tried[k])


\* ------------------------------------------------------------------------
\* The prefix and the regexp of a route
\* ------------------------------------------------------------------------

\* C28: the prefix of every route of the table leads every path the regexp
\* of the route matches, so the test strings.HasPrefix of ServeHTTP never
\* passes over a route whose regexp matches the path of the call.
C28_PrefixLeadsEveryMatch ==
    pc # "idle" =>
        \A j \in Indices : Matches(j) => Leads(routes[j + 1].prefix, path)

====
